---- MODULE Spec2Model ----
(***************************************************************************)
(* Feedlot risk simulator (Synesis): the profitability model computeProfit *)
(* and the grid samplers of RiskSimApp that are derived from it.           *)
(*                                                                         *)
(* JavaScript numbers are modelled as exact rationals extended with the    *)
(* three non-finite values NaN, +Infinity and -Infinity.  A rational is    *)
(* sign * n / d with n and d naturals of arbitrary size, held as sequences *)
(* of limbs (least significant first), so that the guards 1e-9 and 1e-6    *)
(* keep their real values.  Rounding of IEEE doubles and overflow to       *)
(* Infinity beyond 1.8e308 are outside the model.                          *)
(***************************************************************************)
EXTENDS Integers, Sequences, FiniteSets, TLC

(***************************************************************************)
(* Naturals of arbitrary size                                              *)
(***************************************************************************)
LimbBase == 100 * 100

RECURSIVE NatOfInt(_)
NatOfInt(i) == IF i = 0 THEN <<>> ELSE <<i % LimbBase>> \o NatOfInt(i \div LimbBase)

RECURSIVE NatTrim(_)
NatTrim(a) ==
  IF a = <<>> THEN a
  ELSE IF a[Len(a)] = 0 THEN NatTrim(SubSeq(a, 1, Len(a) - 1)) ELSE a

RECURSIVE NatAddC(_, _, _)
NatAddC(a, b, c) ==
  IF a = <<>> /\ b = <<>> THEN (IF c = 0 THEN <<>> ELSE <<c>>)
  ELSE IF b = <<>> /\ c = 0 THEN a
  ELSE IF a = <<>> /\ c = 0 THEN b
  ELSE LET x == (IF a = <<>> THEN 0 ELSE Head(a)) + (IF b = <<>> THEN 0 ELSE Head(b)) + c
       IN  <<x % LimbBase>> \o NatAddC(IF a = <<>> THEN a ELSE Tail(a),
                                       IF b = <<>> THEN b ELSE Tail(b),
                                       x \div LimbBase)

NatAdd(a, b) == NatAddC(a, b, 0)

\* a - b for a >= b, before trimming
RECURSIVE NatSubB(_, _, _)
NatSubB(a, b, w) ==
  IF a = <<>> THEN <<>>
  ELSE IF b = <<>> /\ w = 0 THEN a
  ELSE LET x == Head(a) - (IF b = <<>> THEN 0 ELSE Head(b)) - w
       IN  <<IF x < 0 THEN x + LimbBase ELSE x>>
             \o NatSubB(Tail(a), IF b = <<>> THEN b ELSE Tail(b), IF x < 0 THEN 1 ELSE 0)

NatSub(a, b) == NatTrim(NatSubB(a, b, 0))

\* -1, 0, 1 as the top limbs from index i down compare
RECURSIVE NatCmpFrom(_, _, _)
NatCmpFrom(a, b, i) ==
  IF i = 0 THEN 0
  ELSE IF a[i] < b[i] THEN -1
  ELSE IF a[i] > b[i] THEN 1
  ELSE NatCmpFrom(a, b, i - 1)

NatCmp(a, b) ==
  IF Len(a) < Len(b) THEN -1
  ELSE IF Len(a) > Len(b) THEN 1
  ELSE NatCmpFrom(a, b, Len(a))

RECURSIVE NatMulLimb(_, _, _)
NatMulLimb(a, m, c) ==
  IF a = <<>> THEN (IF c = 0 THEN <<>> ELSE <<c>>)
  ELSE LET x == Head(a) * m + c
       IN  <<x % LimbBase>> \o NatMulLimb(Tail(a), m, x \div LimbBase)

\* a * LimbBase
NatShift(a) == IF a = <<>> THEN a ELSE <<0>> \o a

RECURSIVE NatMul(_, _)
NatMul(a, b) ==
  IF a = <<>> \/ b = <<>> THEN <<>>
  ELSE IF b = <<1>> THEN a
  ELSE IF a = <<1>> THEN b
  ELSE IF Head(b) = 0 THEN NatShift(NatMul(a, Tail(b)))
  ELSE NatAdd(NatMulLimb(a, Head(b), 0), NatShift(NatMul(a, Tail(b))))

(***************************************************************************)
(* JavaScript numbers: k = "fin" is the rational s * n / d (s in -1, 0, 1; *)
(* n = <<>> exactly when s = 0; d > 0), k = "inf" is s * Infinity and      *)
(* k = "nan" is NaN.                                                       *)
(***************************************************************************)
NaN == [k |-> "nan", s |-> 0, n |-> <<>>, d |-> <<1>>]
\* the value undefined (an absent field); ToNumber(undefined) is NaN
Undefined == [k |-> "undef", s |-> 0, n |-> <<>>, d |-> <<1>>]
IsNaN(x) == x.k = "nan" \/ x.k = "undef"
PosInf == [k |-> "inf", s |-> 1, n |-> <<>>, d |-> <<1>>]
NegInf == [k |-> "inf", s |-> -1, n |-> <<>>, d |-> <<1>>]
Inf(s) == IF s < 0 THEN NegInf ELSE PosInf

Fin(s, n, d) == IF n = <<>> THEN [k |-> "fin", s |-> 0, n |-> <<>>, d |-> <<1>>]
                ELSE [k |-> "fin", s |-> s, n |-> n, d |-> d]

\* the number i / j for integers i and j > 0
Rat(i, j) == Fin(IF i < 0 THEN -1 ELSE 1, NatOfInt(IF i < 0 THEN -i ELSE i), NatOfInt(j))
Num(i) == Rat(i, 1)
Zero == Num(0)

IsFinite(x) == x.k = "fin"

\* sign of x - y for finite x and y
FinCmp(x, y) ==
  IF x.s # y.s THEN (IF x.s < y.s THEN -1 ELSE 1)
  ELSE IF x.s = 0 THEN 0
  ELSE x.s * (IF x.d = y.d THEN NatCmp(x.n, y.n)
              ELSE NatCmp(NatMul(x.n, y.d), NatMul(y.n, x.d)))

\* x === y on numbers (NaN differs from everything)
NumEq(x, y) ==
  /\ ~IsNaN(x) /\ ~IsNaN(y)
  /\ IF x.k = "inf" \/ y.k = "inf" THEN x.k = y.k /\ x.s = y.s ELSE FinCmp(x, y) = 0

\* x < y on numbers
NumLt(x, y) ==
  /\ ~IsNaN(x) /\ ~IsNaN(y)
  /\ IF x.k = "inf" THEN x.s < 0 /\ ~(y.k = "inf" /\ y.s < 0)
     ELSE IF y.k = "inf" THEN y.s > 0
     ELSE FinCmp(x, y) < 0

NumLe(x, y) == NumLt(x, y) \/ NumEq(x, y)

Neg(x) == [x EXCEPT !.s = -x.s]

Abs(x) == [x EXCEPT !.s = IF x.s < 0 THEN 1 ELSE x.s]

\* sx * a / d + sy * b / d for naturals a, b, d > 0 and signs sx, sy
AddSigned(sx, a, sy, b, d) ==
  IF sx = sy THEN Fin(sx, NatAdd(a, b), d)
  ELSE IF NatCmp(a, b) = 0 THEN Zero
  ELSE IF NatCmp(a, b) > 0 THEN Fin(sx, NatSub(a, b), d)
  ELSE Fin(sy, NatSub(b, a), d)

\* x + y
Add(x, y) ==
  IF IsNaN(x) \/ IsNaN(y) THEN NaN
  ELSE IF x.k = "inf" THEN (IF y.k = "inf" /\ y.s # x.s THEN NaN ELSE x)
  ELSE IF y.k = "inf" THEN y
  ELSE IF x.s = 0 THEN y
  ELSE IF y.s = 0 THEN x
  ELSE IF x.d = y.d THEN AddSigned(x.s, x.n, y.s, y.n, x.d)
  ELSE AddSigned(x.s, NatMul(x.n, y.d), y.s, NatMul(y.n, x.d), NatMul(x.d, y.d))

\* x - y
Sub(x, y) == Add(x, Neg(y))

\* x * y
Mul(x, y) ==
  IF IsNaN(x) \/ IsNaN(y) THEN NaN
  ELSE IF x.k = "inf" \/ y.k = "inf" THEN (IF x.s = 0 \/ y.s = 0 THEN NaN ELSE Inf(x.s * y.s))
  ELSE IF x.s = 0 \/ y.s = 0 THEN Zero
  ELSE IF x.d = y.n THEN Fin(x.s * y.s, x.n, y.d)
  ELSE IF y.d = x.n THEN Fin(x.s * y.s, y.n, x.d)
  ELSE Fin(x.s * y.s, NatMul(x.n, y.n), NatMul(x.d, y.d))

\* x / y; every zero divisor the program can form is +0
Div(x, y) ==
  IF IsNaN(x) \/ IsNaN(y) THEN NaN
  ELSE IF x.k = "inf" THEN (IF y.k = "inf" THEN NaN ELSE Inf(IF y.s < 0 THEN -x.s ELSE x.s))
  ELSE IF y.k = "inf" THEN Zero
  ELSE IF y.s = 0 THEN (IF x.s = 0 THEN NaN ELSE Inf(x.s))
  ELSE IF x.s = 0 THEN Zero
  ELSE IF x.d = y.d THEN Fin(x.s * y.s, x.n, y.n)
  ELSE IF x.n = y.n THEN Fin(x.s * y.s, y.d, x.d)
  ELSE Fin(x.s * y.s, NatMul(x.n, y.d), NatMul(x.d, y.n))

\* Math.max(x, y)
Max(x, y) ==
  IF IsNaN(x) \/ IsNaN(y) THEN NaN
  ELSE IF NumLt(x, y) THEN y ELSE x

\* Math.min(x, y)
Min(x, y) ==
  IF IsNaN(x) \/ IsNaN(y) THEN NaN
  ELSE IF NumLt(y, x) THEN y ELSE x

(***************************************************************************)
(* Core model: computeProfit                                               *)
(***************************************************************************)
EPS9 == Rat(1, 1000000000)   \* 1e-9
EPS6 == Rat(1, 1000000)      \* 1e-6

\* Guarded with a daily gain of zero let through (adpv >= 0 for adpv > 0)
Guarded_ZeroGainKept(p) ==
  [ _precio_compra |-> IF IsFinite(p.precio_compra) THEN p.precio_compra ELSE Zero,
    _precio_venta  |-> IF IsFinite(p.precio_venta) THEN p.precio_venta ELSE Zero,
    _peso_compra   |-> IF IsFinite(p.peso_compra) THEN p.peso_compra ELSE Zero,
    _peso_salida   |-> IF IsFinite(p.peso_salida) THEN Max(EPS9, p.peso_salida) ELSE EPS9,
    _precio_por_tn |-> IF IsFinite(p.precio_por_tn) THEN p.precio_por_tn ELSE Zero,
    _conversion    |-> IF IsFinite(p.conversion) THEN p.conversion ELSE Zero,
    _adpv          |-> IF IsFinite(p.adpv) /\ ~NumLt(p.adpv, Zero) THEN p.adpv ELSE EPS6,
    _estadia       |-> IF IsFinite(p.estadia) THEN p.estadia ELSE Zero,
    _sanidad       |-> IF IsFinite(p.sanidad) THEN p.sanidad ELSE Zero ]

\* the guarded inputs _precio_compra ... _sanidad
Guarded(p) ==
  [ _precio_compra |-> IF IsFinite(p.precio_compra) THEN p.precio_compra ELSE Zero,
    _precio_venta  |-> IF IsFinite(p.precio_venta) THEN p.precio_venta ELSE Zero,
    _peso_compra   |-> IF IsFinite(p.peso_compra) THEN p.peso_compra ELSE Zero,
    _peso_salida   |-> IF IsFinite(p.peso_salida) THEN Max(EPS9, p.peso_salida) ELSE EPS9,
    _precio_por_tn |-> IF IsFinite(p.precio_por_tn) THEN p.precio_por_tn ELSE Zero,
    _conversion    |-> IF IsFinite(p.conversion) THEN p.conversion ELSE Zero,
    _adpv          |-> IF IsFinite(p.adpv) /\ NumLt(Zero, p.adpv) THEN p.adpv ELSE EPS6,
    _estadia       |-> IF IsFinite(p.estadia) THEN p.estadia ELSE Zero,
    _sanidad       |-> IF IsFinite(p.sanidad) THEN p.sanidad ELSE Zero ]

\* feedCostPerKgGain with the price per ton taken as a price per kg
feedCostPerKgGain_PerKg(g) == Mul(g._conversion, g._precio_por_tn)

feedCostPerKgGain(g) == Mul(g._conversion, Div(g._precio_por_tn, Num(1000)))

\* deltaPeso with the two weights exchanged
deltaPeso_Reversed(g) == Sub(g._peso_compra, g._peso_salida)

deltaPeso(g) == Sub(g._peso_salida, g._peso_compra)

dof(g, deltaPesoV) == Div(deltaPesoV, g._adpv)

\* the locals computed before the result fields, given the first three
CostsFrom(g, deltaPesoV, dofV, feedKg) ==
  [ deltaPeso |-> deltaPesoV,
    dof |-> dofV,
    feedCostPerKgGain |-> feedKg,
    costoFeedTotal |-> Mul(deltaPesoV, feedKg),
    costoOverhead |-> Mul(g._estadia, dofV),
    costoCompra |-> Mul(g._precio_compra, g._peso_compra),
    ingreso |-> Mul(g._precio_venta, g._peso_salida) ]

CostsFromGain(g, deltaPesoV) ==
  CostsFrom(g, deltaPesoV, dof(g, deltaPesoV), feedCostPerKgGain(g))

\* the locals computed before the result fields
Costs(g) == CostsFromGain(g, deltaPeso(g))

\* margen_neto with the subtraction turned round
margen_neto_CostsMinusRevenue(g, c) ==
  Sub(Add(Add(Add(c.costoCompra, c.costoFeedTotal), c.costoOverhead), g._sanidad), c.ingreso)

margen_neto(g, c) ==
  Sub(c.ingreso, Add(Add(Add(c.costoCompra, c.costoFeedTotal), c.costoOverhead), g._sanidad))

relacion_compra_venta(g, c) == Div(g._precio_compra, Max(EPS9, g._precio_venta))

\* breakeven_compra with the health cost left out
breakeven_compra_NoHealthCost(g, c) ==
  Div(Sub(Mul(g._precio_venta, g._peso_salida), Add(c.costoFeedTotal, c.costoOverhead)),
      Max(EPS9, g._peso_compra))

breakeven_compra(g, c) ==
  Div(Sub(Mul(g._precio_venta, g._peso_salida),
          Add(Add(c.costoFeedTotal, c.costoOverhead), g._sanidad)),
      Max(EPS9, g._peso_compra))

\* breakeven_venta with the health cost left out
breakeven_venta_NoHealthCost(g, c) ==
  Div(Add(Add(c.costoCompra, c.costoFeedTotal), c.costoOverhead), Max(EPS9, g._peso_salida))

\* breakeven_venta per kg bought in place of per kg sold
breakeven_venta_PerKgBought(g, c) ==
  Div(Add(Add(Add(c.costoCompra, c.costoFeedTotal), c.costoOverhead), g._sanidad),
      Max(EPS9, g._peso_compra))

\* breakeven_venta with the revenue added to the costs
breakeven_venta_WithRevenue(g, c) ==
  Div(Add(Add(Add(Add(c.costoCompra, c.costoFeedTotal), c.costoOverhead), g._sanidad),
          c.ingreso),
      Max(EPS9, g._peso_salida))

breakeven_venta(g, c) ==
  Div(Add(Add(Add(c.costoCompra, c.costoFeedTotal), c.costoOverhead), g._sanidad),
      Max(EPS9, g._peso_salida))

caida_precio_venta_ganar_0(g, breakevenVenta) ==
  Mul(Div(Sub(g._precio_venta, breakevenVenta), Max(EPS9, g._precio_venta)), Num(100))

costo_kg_producido(g, c) ==
  Div(Add(Add(c.costoFeedTotal, c.costoOverhead), g._sanidad), Max(EPS9, c.deltaPeso))

overhead_por_kg(g, c) == Div(g._estadia, g._adpv)

\* total_inversion with the health cost left out
total_inversion_NoHealthCost(g, c) ==
  Add(Add(c.costoCompra, c.costoFeedTotal), c.costoOverhead)

total_inversion(g, c) ==
  Add(Add(Add(c.costoCompra, c.costoFeedTotal), c.costoOverhead), g._sanidad)

rent_inv(margenNeto, totalInversion) ==
  Mul(Div(margenNeto, Max(EPS9, totalInversion)), Num(100))

rent_mensual(rentInv, dofV) == Div(rentInv, Div(dofV, Num(30)))

rent_anual(rentMensual) == Mul(rentMensual, Num(12))

ResultFields ==
  { "precio_neto_compra", "precio_neto_venta", "margen_de_alimentacion", "margen_neto",
    "relacion_compra_venta", "breakeven_compra", "breakeven_venta",
    "caida_precio_venta_ganar_0", "costo_kg_producido", "overhead_por_kg", "rent_inv",
    "rent_mensual", "rent_anual", "dof", "sanidad", "total_inversion" }

margen_de_alimentacion(g, c) ==
  Mul(c.deltaPeso, Sub(g._precio_venta, c.feedCostPerKgGain))

\* the returned object, one entry per field, given the values that several
\* fields share
Returned(g, c, mn, bv, ti, ri, rm) ==
  [ f \in ResultFields |->
    CASE f = "precio_neto_compra" -> g._precio_compra
      [] f = "precio_neto_venta" -> g._precio_venta
      [] f = "margen_de_alimentacion" -> margen_de_alimentacion(g, c)
      [] f = "margen_neto" -> mn
      [] f = "relacion_compra_venta" -> relacion_compra_venta(g, c)
      [] f = "breakeven_compra" -> breakeven_compra(g, c)
      [] f = "breakeven_venta" -> bv
      [] f = "caida_precio_venta_ganar_0" -> caida_precio_venta_ganar_0(g, bv)
      [] f = "costo_kg_producido" -> costo_kg_producido(g, c)
      [] f = "overhead_por_kg" -> overhead_por_kg(g, c)
      [] f = "rent_inv" -> ri
      [] f = "rent_mensual" -> rm
      [] f = "rent_anual" -> rent_anual(rm)
      [] f = "dof" -> c.dof
      [] f = "sanidad" -> g._sanidad
      [] f = "total_inversion" -> ti ]

ReturnedFromRentInv(g, c, mn, bv, ti, ri) ==
  Returned(g, c, mn, bv, ti, ri, rent_mensual(ri, c.dof))

ReturnedFromMargin(g, c, mn, bv, ti) ==
  ReturnedFromRentInv(g, c, mn, bv, ti, rent_inv(mn, ti))

ReturnedFromCosts(g, c) ==
  ReturnedFromMargin(g, c, margen_neto(g, c), breakeven_venta(g, c), total_inversion(g, c))

ReturnedFromGuarded(g) == ReturnedFromCosts(g, Costs(g))

computeProfit(p) == ReturnedFromGuarded(Guarded(p))

\* the parameters of the self-tests (Scenario A)
baseParams ==
  [ precio_compra |-> Num(3000), precio_venta |-> Num(3500), peso_compra |-> Num(200),
    peso_salida |-> Num(300), precio_por_tn |-> Num(60000), conversion |-> Num(8),
    adpv |-> Rat(3, 2), estadia |-> Num(20), sanidad |-> Num(1000) ]

(***************************************************************************)
(* State                                                                   *)
(*   params, out, phase, how, arg2, out2 : a call of computeProfit on      *)
(*     params, then a second call on arg2 (params with one field replaced) *)
(*   ui    : the inputs held by RiskSimApp (useState)                      *)
(*   row, parts : the loop of Heatmap that builds linePts                  *)
(*   kv    : localStorage, the texts under 'risk.inputs', 'risk_scenarios' *)
(*   scenarioStorage, nextScenarioId : the module-level scenario store     *)
(*   last  : the last handler that ran, with what it was given and the     *)
(*           inputs it found                                               *)
(*   events : the number of handlers run so far                            *)
(*   assigned : the ids given out by addScenario since the module loaded   *)
(*   raw, text : an argument of formatNumber and the text returned for it  *)
(*   hIdx, rafRef, lastIdxRef : the hover state and the two refs of        *)
(*           LineChart (NullIdx and 0 stand for null)                      *)
(*   frames : the animation-frame callbacks requested and not yet run or   *)
(*           cancelled, each with the index its closure holds              *)
(*   rafCount : the number of animation frames requested so far            *)
(*   pointer : whether the last mouse event over the chart was a move      *)
(*           (the empty text before the call)                              *)
(***************************************************************************)
VARIABLES params, out, phase, how, arg2, out2, ui, row, parts,
          kv, scenarioStorage, nextScenarioId, last, events, raw, text,
          assigned, hIdx, rafRef, lastIdxRef, frames, rafCount, pointer,
          precioPorTnInput, estadiaInput, edited, saveTimer, pendingLoad, settingsStore

profitVars == <<params, out, phase, how, arg2, out2>>
gridVars == <<ui, row, parts>>
storeVars == <<kv, scenarioStorage, nextScenarioId>>
formatVars == <<raw, text>>
hoverVars == <<hIdx, rafRef, lastIdxRef, frames, rafCount, pointer>>
textVars == <<precioPorTnInput, estadiaInput, edited>>
saveVars == <<saveTimer, pendingLoad, settingsStore>>
appVars == <<kv, scenarioStorage, nextScenarioId, last, events, raw, text, assigned,
             hoverVars, textVars, saveVars>>
vars == <<params, out, phase, how, arg2, out2, ui, row, parts,
          kv, scenarioStorage, nextScenarioId, last, events, raw, text,
          assigned, hIdx, rafRef, lastIdxRef, frames, rafCount, pointer,
          precioPorTnInput, estadiaInput, edited, saveTimer, pendingLoad, settingsStore>>

MaxDegenerate == 3
MaxBump == 2

ParamFields ==
  { "precio_compra", "precio_venta", "peso_compra", "peso_salida", "precio_por_tn",
    "conversion", "adpv", "estadia", "sanidad" }

\* per field: the Scenario A value and the degenerate values tried in its place
ParamValues ==
  [ precio_compra : {Num(3000), NaN},
    precio_venta  : {Num(3500), Num(0), PosInf},
    peso_compra   : {Num(200), Num(0), Num(-200), EPS9, Undefined},
    peso_salida   : {Num(300), Num(200), Num(0), NaN},
    precio_por_tn : {Num(60000), NegInf},
    conversion    : {Num(8), NaN},
    adpv          : {Rat(3, 2), Num(0), Num(-1), NaN},
    estadia       : {Num(20), Undefined},
    sanidad       : {Num(1000), PosInf} ]

\* Scenario A with at most MaxDegenerate fields replaced
ParamSpace ==
  { p \in ParamValues :
      Cardinality({f \in ParamFields : p[f] # baseParams[f]}) <= MaxDegenerate }

SalePrices == {Num(0), Num(3000), Num(3100), Num(4000), NaN}

Bumps == {Num(1000 * k) : k \in 1..MaxBump}

NoResult == [f \in ResultFields |-> Undefined]

(***************************************************************************)
(* RiskSimApp: inputs and the grids derived from them                      *)
(***************************************************************************)
\* the useState initial values
DefaultInputs ==
  [ precioCompra |-> Num(3000), precioVenta |-> Num(3500), numCabezas |-> Num(100),
    pesoCompra |-> Num(200), pesoSalida |-> Num(460), precioPorTn |-> Num(64000),
    conversion |-> Num(8), mortandad |-> Num(1), adpv |-> Rat(6, 5), estadia |-> Num(30),
    sanidad |-> Num(1200) ]

domainXMin == 2000
domainXMax == 6000

\* arrays are functions on 0 .. length - 1
ArrLen(a) == Cardinality(DOMAIN a)

\* ventaGrid with the range divided by n in place of n - 1
ventaGrid_StepOverN ==
  LET n == 81
      step == Div(Sub(Num(domainXMax), Num(domainXMin)), Num(n))
  IN  [i \in 0..(n - 1) |-> Add(Num(domainXMin), Mul(Num(i), step))]

ventaGrid ==
  LET n == 81
      step == Div(Sub(Num(domainXMax), Num(domainXMin)), Num(n - 1))
  IN  [i \in 0..(n - 1) |-> Add(Num(domainXMin), Mul(Num(i), step))]

compraGrid ==
  LET start == 2000
      end == 6000
      n == 81
      step == Div(Sub(Num(end), Num(start)), Num(n - 1))
  IN  [i \in 0..(n - 1) |-> Add(Num(start), Mul(Num(i), step))]

\* ProfitArgs with the two prices exchanged
ProfitArgs_Swapped(pc, pv) ==
  [ precio_compra |-> pv, precio_venta |-> pc, peso_compra |-> ui.pesoCompra,
    peso_salida |-> ui.pesoSalida, precio_por_tn |-> ui.precioPorTn,
    conversion |-> ui.conversion, adpv |-> Max(Rat(1, 100), ui.adpv),
    estadia |-> ui.estadia, sanidad |-> ui.sanidad ]

\* the argument object of the computeProfit calls of the samplers
ProfitArgs(pc, pv) ==
  [ precio_compra |-> pc, precio_venta |-> pv, peso_compra |-> ui.pesoCompra,
    peso_salida |-> ui.pesoSalida, precio_por_tn |-> ui.precioPorTn,
    conversion |-> ui.conversion, adpv |-> Max(Rat(1, 100), ui.adpv),
    estadia |-> ui.estadia, sanidad |-> ui.sanidad ]

heatZ ==
  [i \in DOMAIN compraGrid |->
    [j \in DOMAIN ventaGrid |->
      computeProfit(ProfitArgs(compraGrid[i], ventaGrid[j]))["margen_neto"]]]

\* zeroLineX reading the other breakeven of the result
zeroLineX_BreakevenCompra ==
  [i \in DOMAIN compraGrid |->
    computeProfit(ProfitArgs(compraGrid[i], Zero))["breakeven_compra"]]

zeroLineX ==
  [i \in DOMAIN compraGrid |->
    computeProfit(ProfitArgs(compraGrid[i], Zero))["breakeven_venta"]]

\* x.reduce((best, v, i) => (Math.abs(v - pv) < Math.abs(x[best] - pv) ? i : best), 0)
\* over the indices lo .. hi - 1 in increasing order, entered with the
\* accumulator best: the first half of the indices, then the second half
RECURSIVE NearestFrom(_, _, _, _, _)
NearestFrom(x, pv, lo, hi, best) ==
  IF hi <= lo THEN best
  ELSE IF hi = lo + 1
  THEN (IF NumLt(Abs(Sub(x[lo], pv)), Abs(Sub(x[best], pv))) THEN lo ELSE best)
  ELSE LET b == NearestFrom(x, pv, lo, (lo + hi) \div 2, best)
       IN  \* the test has b evaluated before the second half is entered
           IF b >= 0 THEN NearestFrom(x, pv, (lo + hi) \div 2, hi, b) ELSE b

NearestIdx(x, pv) == NearestFrom(x, pv, 0, ArrLen(x), 0)

\* what an onChange event of a number input carries: "" or a numeric text
EmptyText == [k |-> "empty", s |-> 0, n |-> <<>>, d |-> <<1>>]

\* parseFloat(e.target.value || "0")
ParseOrZero(v) == IF v = EmptyText THEN Zero ELSE v

TypedPesoCompra == {Num(200), Num(0)}
TypedPesoSalida == {Num(460), Num(200), EmptyText}
TypedAdpv == {Rat(6, 5), Num(0)}

(***************************************************************************)
(* JSON values and the texts of localStorage and of imported files         *)
(*   a field of an object is a number, null (JNull) or absent (Undefined); *)
(*   a value is an object of scenario fields, an array of stored           *)
(*   scenarios, or a primitive (a number or null);                         *)
(*   a text is missing (getItem returns null), unparsable, or the          *)
(*   serialisation of a value                                              *)
(***************************************************************************)
UiFields ==
  { "precioCompra", "precioVenta", "numCabezas", "pesoCompra", "pesoSalida", "precioPorTn",
    "conversion", "mortandad", "adpv", "estadia", "sanidad" }

JNull == [k |-> "null", s |-> 0, n |-> <<>>, d |-> <<1>>]

NoFields == [f \in UiFields |-> Undefined]

JObject(fields) == [shape |-> "object", f |-> fields, n |-> JNull, items |-> <<>>]
JPrim(v) == [shape |-> "prim", f |-> NoFields, n |-> v, items |-> <<>>]
JArray(a) == [shape |-> "array", f |-> NoFields, n |-> JNull, items |-> a]

NoText == [t |-> "none", v |-> JPrim(JNull)]
BadText == [t |-> "bad", v |-> JPrim(JNull)]
EmptyStringText == [t |-> "empty", v |-> JPrim(JNull)]
JsonText(v) == [t |-> "json", v |-> v]

\* d.field of a parsed value d that is not null: undefined unless d is an
\* object that has the field
Field(d, name) == IF d.shape = "object" THEN d.f[name] ELSE Undefined

\* a ?? b
Coalesce(a, b) == IF a = Undefined \/ a = JNull THEN b ELSE a

NoEvent == [op |-> "none", file |-> NoText, before |-> DefaultInputs, error |-> "none"]

(***************************************************************************)
(* toNumber and formatNumber.  An argument is a value of one of the types  *)
(* of typeof; a string is a sequence of characters and so is the text      *)
(* returned.  Numbers that are formatted have a numerator and denominator  *)
(* small enough for integer arithmetic.                                    *)
(***************************************************************************)
RawOf(type) == [type |-> type, num |-> NaN, str |-> <<>>]
RawNull == RawOf("null")
RawUndefined == RawOf("undefined")
RawNumber(v) == [type |-> "number", num |-> v, str |-> <<>>]
RawString(chars) == [type |-> "string", num |-> NaN, str |-> chars]

DigitChars == <<"0", "1", "2", "3", "4", "5", "6", "7", "8", "9">>
IsDigit(c) == \E i \in 1..10 : DigitChars[i] = c
DigitOf(c) == (CHOOSE i \in 1..10 : DigitChars[i] = c) - 1

\* String.prototype.trim
RECURSIVE TrimLeft(_)
TrimLeft(chars) ==
  IF chars # <<>> /\ Head(chars) = " " THEN TrimLeft(Tail(chars)) ELSE chars

RECURSIVE TrimRight(_)
TrimRight(chars) ==
  IF chars # <<>> /\ chars[Len(chars)] = " "
  THEN TrimRight(SubSeq(chars, 1, Len(chars) - 1)) ELSE chars

Trim(chars) == TrimRight(TrimLeft(chars))

NotSpaceOrComma(c) == c # " " /\ c # ","

\* cleaned with the commas and inner spaces left in
cleaned_TrimOnly(chars) == Trim(chars)

\* raw.trim().replace(/[\s,]/g, "")
cleaned(chars) == SelectSeq(Trim(chars), NotSpaceOrComma)

\* the value of a sequence of decimal digits
RECURSIVE DigitsValue(_)
DigitsValue(chars) ==
  IF chars = <<>> THEN 0
  ELSE 10 * DigitsValue(SubSeq(chars, 1, Len(chars) - 1)) + DigitOf(chars[Len(chars)])

RECURSIVE PowerOfTen(_)
PowerOfTen(k) == IF k = 0 THEN 1 ELSE 10 * PowerOfTen(k - 1)

AllDigits(chars) == \A i \in 1..Len(chars) : IsDigit(chars[i])

\* the index of the first "." of chars, or Len(chars) + 1
RECURSIVE DotIndex(_)
DotIndex(chars) ==
  IF chars = <<>> \/ Head(chars) = "." THEN 1 ELSE 1 + DotIndex(Tail(chars))

\* the value of an unsigned decimal literal with integer digits ip and
\* fraction digits fp ("1." and ".5" are literals, "." and "" are not)
UnsignedLiteral(sign, ip, fp) ==
  IF AllDigits(ip) /\ AllDigits(fp) /\ Len(ip) + Len(fp) > 0
  THEN Rat(sign * DigitsValue(ip \o fp), PowerOfTen(Len(fp)))
  ELSE NaN

UnsignedNumber(sign, chars, dot) ==
  UnsignedLiteral(sign, SubSeq(chars, 1, dot - 1), SubSeq(chars, dot + 1, Len(chars)))

\* Number(chars) for a text without spaces: 0 for the empty text, the value
\* of a decimal literal with an optional sign, NaN otherwise
StringToNumber(chars) ==
  IF chars = <<>> THEN Zero
  ELSE IF Head(chars) = "-" THEN UnsignedNumber(-1, Tail(chars), DotIndex(Tail(chars)))
  ELSE UnsignedNumber(1, chars, DotIndex(chars))

\* null (JNull) unless v is a finite number
FiniteOrNull(v) == IF IsFinite(v) THEN v ELSE JNull

toNumber(r) ==
  IF r.type = "null" \/ r.type = "undefined" THEN JNull
  ELSE IF r.type = "number" THEN FiniteOrNull(r.num)
  ELSE IF r.type = "string" THEN FiniteOrNull(StringToNumber(cleaned(r.str)))
  ELSE JNull

RECURSIVE IntOfNat(_)
IntOfNat(a) == IF a = <<>> THEN 0 ELSE a[1] + LimbBase * IntOfNat(Tail(a))

RECURSIVE Digits(_)
Digits(i) ==
  IF i < 10 THEN <<DigitChars[i + 1]>> ELSE Digits(i \div 10) \o <<DigitChars[(i % 10) + 1]>>

RECURSIVE PadLeft(_, _)
PadLeft(ds, w) == IF Len(ds) >= w THEN ds ELSE PadLeft(<<"0">> \o ds, w)

SignText(s) == IF s < 0 THEN <<"-">> ELSE <<>>

\* ds with a point before its last k digits
WithPoint(ds, k) ==
  SubSeq(ds, 1, Len(ds) - k) \o <<".">> \o SubSeq(ds, Len(ds) - k + 1, Len(ds))

\* (s * num / den).toFixed(k), k > 0: the nearest multiple of 10^-k, the
\* larger one of two equally near
toFixedOf(s, num, den, k) ==
  SignText(s)
    \o WithPoint(PadLeft(Digits((2 * num * PowerOfTen(k) + den) \div (2 * den)), k + 1), k)

toFixed(n, k) == toFixedOf(n.s, IntOfNat(n.n), IntOfNat(n.d), k)

\* Math.round(n): floor(n + 0.5)
MathRound(n) == (2 * n.s * IntOfNat(n.n) + IntOfNat(n.d)) \div (2 * IntOfNat(n.d))

\* digits in groups of three
RECURSIVE Grouped(_)
Grouped(ds) ==
  IF Len(ds) <= 3 THEN ds
  ELSE Grouped(SubSeq(ds, 1, Len(ds) - 3)) \o <<",">> \o SubSeq(ds, Len(ds) - 2, Len(ds))

\* i.toLocaleString("en-US") for an integer i
toLocaleString(i) ==
  IF i < 0 THEN <<"-">> \o Grouped(Digits(-i)) ELSE Grouped(Digits(i))

\* the text for toNumber's result n
FormatOf(n) ==
  IF n = JNull THEN <<"-">>
  ELSE IF NumLe(Num(1000000), Abs(n))
       THEN toFixedOf(n.s, IntOfNat(n.n), 1000000 * IntOfNat(n.d), 2) \o <<"M">>
  ELSE IF NumLe(Num(1000), Abs(n)) THEN toLocaleString(MathRound(n))
  ELSE IF NumLe(Num(10), Abs(n)) THEN toFixed(n, 1)
  ELSE IF NumLe(Num(1), Abs(n)) THEN toFixed(n, 2)
  ELSE toFixed(n, 3)

formatNumber(r) == FormatOf(toNumber(r))

(***************************************************************************)
(* String(number) and parseFloat, as the two text inputs use them          *)
(***************************************************************************)
\* the least k <= 6 for which den divides 10^k
RECURSIVE DecimalPlaces(_, _)
DecimalPlaces(den, k) ==
  IF k >= 6 \/ PowerOfTen(k) % den = 0 THEN k ELSE DecimalPlaces(den, k + 1)

DecimalText(s, num, den, k) ==
  IF k = 0 THEN SignText(s) \o Digits(num \div den) ELSE toFixedOf(s, num, den, k)

InfinityChars == <<"I", "n", "f", "i", "n", "i", "t", "y">>

\* String(v) for a number v whose decimal expansion ends within six places
NumberToString(v) ==
  IF v.k = "nan" THEN <<"N", "a", "N">>
  ELSE IF v.k = "inf" THEN SignText(v.s) \o InfinityChars
  ELSE DecimalText(v.s, IntOfNat(v.n), IntOfNat(v.d), DecimalPlaces(IntOfNat(v.d), 0))

\* the number of digits chars begins with
RECURSIVE DigitPrefixLen(_)
DigitPrefixLen(chars) ==
  IF chars = <<>> \/ ~IsDigit(Head(chars)) THEN 0 ELSE 1 + DigitPrefixLen(Tail(chars))

StartsWith(chars, prefix) ==
  Len(chars) >= Len(prefix) /\ SubSeq(chars, 1, Len(prefix)) = prefix

\* the digits after a point that follows the integer digits
FractionDigits(rest) ==
  IF rest # <<>> /\ Head(rest) = "."
  THEN SubSeq(Tail(rest), 1, DigitPrefixLen(Tail(rest)))
  ELSE <<>>

\* the longest prefix of chars that is a decimal literal (no exponent)
ParseUnsigned(sign, chars, ipLen) ==
  IF StartsWith(chars, InfinityChars) THEN Inf(sign)
  ELSE UnsignedLiteral(sign, SubSeq(chars, 1, ipLen),
                       FractionDigits(SubSeq(chars, ipLen + 1, Len(chars))))

\* parseFloat(chars) for a text without white space
parseFloat(chars) ==
  IF chars # <<>> /\ Head(chars) = "-"
  THEN ParseUnsigned(-1, Tail(chars), DigitPrefixLen(Tail(chars)))
  ELSE IF chars # <<>> /\ Head(chars) = "+"
  THEN ParseUnsigned(1, Tail(chars), DigitPrefixLen(Tail(chars)))
  ELSE ParseUnsigned(1, chars, DigitPrefixLen(chars))

\* parseFloat(input.replace(/[\s,]/g, ""))
ParsedInput(chars) == parseFloat(SelectSeq(chars, NotSpaceOrComma))

(***************************************************************************)
(* LineChart: the hover state before any mouse event                       *)
(***************************************************************************)
\* the value null of hIdx and lastIdxRef.current
NullIdx == -1

\* useState(null), useRef(null), useRef(null); no frame was requested
InitHover ==
  /\ hIdx = NullIdx
  /\ rafRef = 0
  /\ lastIdxRef = NullIdx
  /\ frames = {}
  /\ rafCount = 0
  /\ pointer = "out"

(***************************************************************************)
(* RiskSimApp: the two text inputs and the auto-save before any event      *)
(***************************************************************************)
\* useState("64000") and useState("30"); edited holds the names of the text
\* inputs whose text was typed since the program last wrote or read it
InitText ==
  /\ precioPorTnInput = <<"6", "4", "0", "0", "0">>
  /\ estadiaInput = <<"3", "0">>
  /\ edited = {}

\* no timer of window.setTimeout and no loadSetting is waiting; saveTimer
\* holds the callbacks that wait, the number of setTimeout calls made and
\* the id that the cleanup of the save effect will clear
NoTimer == [timers |-> {}, made |-> 0, current |-> 0]
NoLoad == [on |-> FALSE, s |-> JPrim(JNull)]

InitSave ==
  /\ saveTimer = NoTimer
  /\ pendingLoad = NoLoad
  /\ settingsStore = "localStorage"

(***************************************************************************)
(* Initial states                                                          *)
(***************************************************************************)
InitCalls(P) ==
  /\ params \in P
  /\ out = NoResult
  /\ phase = "input"
  /\ how = "none"
  /\ arg2 = params
  /\ out2 = NoResult

InitApp ==
  /\ ui = DefaultInputs
  /\ row = 0
  /\ parts = <<>>
  /\ kv = [inputs |-> NoText, scenarios |-> NoText]
  /\ scenarioStorage = JArray(<<>>)
  /\ nextScenarioId = Num(1)
  /\ last = NoEvent
  /\ events = 0
  /\ raw = RawNull
  /\ text = <<>>
  /\ assigned = <<>>
  /\ InitHover
  /\ InitText
  /\ InitSave

InitProfit == InitCalls(ParamSpace) /\ InitApp

InitGrid == InitCalls({baseParams}) /\ InitApp

(***************************************************************************)
(* Calls of computeProfit                                                  *)
(***************************************************************************)
\* base = computeProfit(params)
Call ==
  /\ phase = "input"
  /\ out' = computeProfit(params)
  /\ phase' = "called"
  /\ UNCHANGED <<params, how, arg2, out2>>
  /\ UNCHANGED gridVars
  /\ UNCHANGED appVars

CallAgain(kind, q) ==
  /\ phase = "called"
  /\ arg2' = q
  /\ out2' = computeProfit(q)
  /\ how' = kind
  /\ phase' = "again"
  /\ UNCHANGED <<params, out>>
  /\ UNCHANGED gridVars
  /\ UNCHANGED appVars

\* computeProfit({ ...params, precio_venta: base.breakeven_venta })
PlugBreakevenVenta ==
  CallAgain("breakeven_venta", [params EXCEPT !.precio_venta = out.breakeven_venta])

\* computeProfit({ ...params, precio_compra: base.breakeven_compra })
PlugBreakevenCompra ==
  CallAgain("breakeven_compra", [params EXCEPT !.precio_compra = out.breakeven_compra])

\* computeProfit({ ...params, precio_venta: pv })
ChangeSalePrice ==
  \E pv \in SalePrices : CallAgain("precio_venta", [params EXCEPT !.precio_venta = pv])

\* computeProfit({ ...params, precio_por_tn: params.precio_por_tn + D })
BumpFeedPrice ==
  \E D \in Bumps :
    CallAgain("precio_por_tn", [params EXCEPT !.precio_por_tn = Add(params.precio_por_tn, D)])

NextProfit ==
  \/ Call
  \/ PlugBreakevenVenta
  \/ PlugBreakevenCompra
  \/ ChangeSalePrice
  \/ BumpFeedPrice

SpecProfit == InitProfit /\ [][NextProfit]_vars

(***************************************************************************)
(* RiskSimApp: input handlers, and the Heatmap render that follows         *)
(***************************************************************************)
\* a state change re-renders: Heatmap starts the linePts loop again
Rerender(newUi) ==
  /\ row = ArrLen(compraGrid)
  /\ newUi # ui
  /\ ui' = newUi
  /\ row' = 0
  /\ parts' = <<>>
  /\ UNCHANGED profitVars
  /\ UNCHANGED appVars

SetPesoCompra ==
  \E v \in TypedPesoCompra : Rerender([ui EXCEPT !.pesoCompra = ParseOrZero(v)])

SetPesoSalida ==
  \E v \in TypedPesoSalida : Rerender([ui EXCEPT !.pesoSalida = ParseOrZero(v)])

SetAdpv ==
  \E v \in TypedAdpv : Rerender([ui EXCEPT !.adpv = ParseOrZero(v)])

\* the part of linePts added for a row whose breakeven lies on the axis
LinePart(colIdx, actualMargin) ==
  IF NumLt(Num(100), Abs(actualMargin)) THEN <<>>
  ELSE <<[cmd |-> IF parts = <<>> THEN "M" ELSE "L", col |-> colIdx, row |-> row]>>

LinePartAt(colIdx) == LinePart(colIdx, heatZ[row][colIdx])

\* the body of the loop for the row with breakeven price pv
LinePartOfRow(x, nX, pv) ==
  IF ~IsFinite(pv) \/ NumLt(pv, x[0]) \/ NumLt(x[nX - 1], pv) THEN <<>>
  ELSE LinePartAt(NearestIdx(x, pv))

\* one iteration of the loop over the rows that builds linePts
LinePtsStep ==
  /\ row < ArrLen(compraGrid)
  /\ parts' = parts \o LinePartOfRow(ventaGrid, ArrLen(ventaGrid), zeroLineX[row])
  /\ row' = row + 1
  /\ UNCHANGED ui
  /\ UNCHANGED profitVars
  /\ UNCHANGED appVars

NextGrid ==
  \/ SetPesoCompra
  \/ SetPesoSalida
  \/ SetAdpv
  \/ LinePtsStep

SpecGrid == InitGrid /\ [][NextGrid]_vars

(***************************************************************************)
(* RiskSimApp: the values derived from the inputs                          *)
(***************************************************************************)
sensX == ventaGrid

sensY ==
  [i \in DOMAIN sensX |->
    computeProfit(ProfitArgs(ui.precioCompra, sensX[i]))["margen_neto"]]

\* dy / Math.max(1e-9, dx) with the division left unguarded
ForwardDifference_Unguarded(x, y, idx, j) ==
  Div(Sub(y[j], y[idx]), Sub(x[j], x[idx]))

\* dy / Math.max(1e-9, dx) from index idx to index j
ForwardDifference(x, y, idx, j) ==
  Div(Sub(y[j], y[idx]), Max(EPS9, Sub(x[j], x[idx])))

\* the body of elasticity after idx is found; j = Math.min(idx + 1, length - 1)
elasticityAt(x, y, idx) ==
  ForwardDifference(x, y, idx, IF idx + 1 < ArrLen(x) - 1 THEN idx + 1 ELSE ArrLen(x) - 1)

elasticityOf(x, y, pv) ==
  IF ArrLen(x) < 2 THEN Zero ELSE elasticityAt(x, y, NearestIdx(x, pv))

elasticity == elasticityOf(sensX, sensY, ui.precioVenta)

perHead == computeProfit(ProfitArgs(ui.precioCompra, ui.precioVenta))

\* Math.max(0, Math.min(1, 1 - mortandad / 100))
survRateOf(m) == Max(Zero, Min(Num(1), Sub(Num(1), Div(m, Num(100)))))

survRate == survRateOf(ui.mortandad)

totalHeadsOf(n, m) == Mul(n, survRateOf(m))

totalHeads == totalHeadsOf(ui.numCabezas, ui.mortandad)

\* totalsOf with the investment counted for the surviving heads only
totalsOf_InvestmentOfSurvivors(ph, n, m) ==
  [ margen_neto |-> Mul(ph["margen_neto"], totalHeadsOf(n, m)),
    total_inversion |-> Mul(ph["total_inversion"], totalHeadsOf(n, m)) ]

\* totals for the per-head result ph, n heads and mortality m
totalsOf(ph, n, m) ==
  [ margen_neto |-> Mul(ph["margen_neto"], totalHeadsOf(n, m)),
    total_inversion |-> Mul(ph["total_inversion"], n) ]

totals == totalsOf(perHead, ui.numCabezas, ui.mortandad)

(***************************************************************************)
(* RiskSimApp: the handlers that set inputs (SpecApp).  Each handler that  *)
(* runs is counted in events and recorded in last; the render of Heatmap   *)
(* that follows a change is the subject of SpecGrid.                       *)
(***************************************************************************)
MaxEvents == 2

\* the state change of a handler named op that was given file, sets the
\* inputs to newUi and ends with error ("none", or "alert" for the alert
\* of a catch block); at most bound handlers run
Event(bound, op, file, error, newUi) ==
  /\ events < bound
  /\ last' = [op |-> op, file |-> file, before |-> ui, error |-> error]
  /\ events' = events + 1
  /\ ui' = newUi
  /\ row' = 0
  /\ parts' = <<>>
  /\ UNCHANGED profitVars
  /\ UNCHANGED storeVars
  /\ UNCHANGED formatVars
  /\ UNCHANGED assigned
  /\ UNCHANGED hoverVars

\* a handler that leaves the two text inputs as they are
Handle(op, file, error, newUi) ==
  /\ Event(MaxEvents, op, file, error, newUi)
  /\ UNCHANGED textVars
  /\ UNCHANGED saveVars

\* JSON.parse(stored) throws
ParseThrows(stored) == stored.t # "json"

\* loadSetting without its catch block: an unparsable text gives no value
loadSetting_NoCatch(key, def) ==
  IF kv[key].t \in {"none", "empty"} THEN def ELSE kv[key].v

\* loadSetting(key, def): def when getItem gives null or "", or JSON.parse throws
loadSetting(key, def) ==
  IF kv[key].t \in {"none", "empty"} THEN def
  ELSE IF ParseThrows(kv[key]) THEN def
  ELSE kv[key].v

\* !s
Falsy(s) == s.shape = "prim" /\ (s.n = JNull \/ NumEq(s.n, Zero))

\* the eleven setters called with d.field ?? fallback.field
Applied(d, fallback) ==
  [ precioCompra |-> Coalesce(Field(d, "precioCompra"), fallback.precioCompra),
    precioVenta |-> Coalesce(Field(d, "precioVenta"), fallback.precioVenta),
    numCabezas |-> Coalesce(Field(d, "numCabezas"), fallback.numCabezas),
    pesoCompra |-> Coalesce(Field(d, "pesoCompra"), fallback.pesoCompra),
    pesoSalida |-> Coalesce(Field(d, "pesoSalida"), fallback.pesoSalida),
    precioPorTn |-> Coalesce(Field(d, "precioPorTn"), fallback.precioPorTn),
    conversion |-> Coalesce(Field(d, "conversion"), fallback.conversion),
    mortandad |-> Coalesce(Field(d, "mortandad"), fallback.mortandad),
    adpv |-> Coalesce(Field(d, "adpv"), fallback.adpv),
    estadia |-> Coalesce(Field(d, "estadia"), fallback.estadia),
    sanidad |-> Coalesce(Field(d, "sanidad"), fallback.sanidad) ]

\* the mount effect: s = await loadSetting("risk.inputs", null); if (!s) return
LoadedInputs(s) == IF Falsy(s) THEN ui ELSE Applied(s, DefaultInputs)

\* setPrecioPorTnInput(String(...)) and setEstadiaInput(String(...)) of the
\* mount effect, which are not reached when s is falsy
LoadedTexts(s, newUi) ==
  IF Falsy(s) THEN UNCHANGED textVars
  ELSE /\ precioPorTnInput' = NumberToString(newUi.precioPorTn)
       /\ estadiaInput' = NumberToString(newUi.estadia)
       /\ edited' = {}

LoadWithin(bound, s) ==
  /\ events = 0
  /\ Event(bound, "load", kv.inputs, "none", LoadedInputs(s))
  /\ LoadedTexts(s, LoadedInputs(s))

LoadEffect ==
  /\ LoadWithin(MaxEvents, loadSetting("inputs", JPrim(JNull)))
  /\ UNCHANGED saveVars

\* the import handler: nothing without a file; a text that does not parse,
\* and a property read of null, throw inside the try block before any setter
\* ImportThrows with the property reads of null taken as reads of undefined
ImportThrows_ParseOnly(file) == ParseThrows(file)

ImportThrows(file) == ParseThrows(file) \/ file.v = JPrim(JNull)

ImportedInputs(file) ==
  IF file.t = "none" \/ ImportThrows(file) THEN ui ELSE Applied(file.v, ui)

ImportError(file) ==
  IF file.t # "none" /\ ImportThrows(file) THEN "alert" ELSE "none"

\* records found in files and under "risk.inputs"
FullRecord ==
  [ precioCompra |-> Num(4000), precioVenta |-> Num(2025), numCabezas |-> Num(50),
    pesoCompra |-> Num(180), pesoSalida |-> Num(400), precioPorTn |-> Num(60000),
    conversion |-> Num(7), mortandad |-> Num(150), adpv |-> Num(1), estadia |-> Num(20),
    sanidad |-> Num(1000) ]

PartialRecord ==
  [NoFields EXCEPT !["precioVenta"] = Num(7000), !["mortandad"] = Neg(Num(5))]

NullFieldRecord ==
  [NoFields EXCEPT !["precioCompra"] = JNull, !["pesoSalida"] = Num(300)]

JsonValues ==
  { JPrim(JNull), JPrim(Zero), JPrim(Num(7)), JArray(<<>>), JObject(NoFields),
    JObject(FullRecord), JObject(PartialRecord), JObject(NullFieldRecord) }

Texts == {NoText, EmptyStringText, BadText} \cup {JsonText(v) : v \in JsonValues}

ImportJSON ==
  /\ events > 0
  /\ \E file \in Texts : Handle("import", file, ImportError(file), ImportedInputs(file))

\* positions of the range inputs (min 2000, max 6000, step 10)
SliderPrices == {Num(4030), Num(6000)}

SetPrecioCompra ==
  /\ events > 0
  /\ \E v \in SliderPrices :
       Handle("setPrecioCompra", NoText, "none", [ui EXCEPT !.precioCompra = v])

SetPrecioVenta ==
  /\ events > 0
  /\ \E v \in SliderPrices :
       Handle("setPrecioVenta", NoText, "none", [ui EXCEPT !.precioVenta = v])

\* whole-number texts of the head count input: parseInt(e.target.value || "0")
TypedNumCabezas == {Num(7), EmptyText}
TypedMortandad == {Num(50), Num(100), EmptyText}

SetNumCabezas ==
  /\ events > 0
  /\ \E v \in TypedNumCabezas :
       Handle("setNumCabezas", NoText, "none", [ui EXCEPT !.numCabezas = ParseOrZero(v)])

SetMortandad ==
  /\ events > 0
  /\ \E v \in TypedMortandad :
       Handle("setMortandad", NoText, "none", [ui EXCEPT !.mortandad = ParseOrZero(v)])

\* the page is mounted with any text under "risk.inputs"
InitMount ==
  /\ InitCalls({baseParams})
  /\ ui = DefaultInputs
  /\ row = 0
  /\ parts = <<>>
  /\ kv \in {[inputs |-> t, scenarios |-> NoText] : t \in Texts}
  /\ scenarioStorage = JArray(<<>>)
  /\ nextScenarioId = Num(1)
  /\ last = NoEvent
  /\ events = 0
  /\ raw = RawNull
  /\ text = <<>>
  /\ assigned = <<>>
  /\ InitHover
  /\ InitText
  /\ InitSave

NextApp ==
  \/ LoadEffect
  \/ ImportJSON
  \/ SetPrecioCompra
  \/ SetPrecioVenta
  \/ SetNumCabezas
  \/ SetMortandad

SpecApp == InitMount /\ [][NextApp]_vars

(***************************************************************************)
(* The scenario store (SpecStore): addScenario, listScenarios, getScenario *)
(* and deleteScenario over scenarioStorage, nextScenarioId and the text    *)
(* under 'risk_scenarios'.  scenarioStorage holds a JavaScript value: an   *)
(* array of scenarios, or whatever JSON.parse gave listScenarios.          *)
(***************************************************************************)
MaxStoreOps == 4

Scenario(id, name, data, createdAt) ==
  [id |-> id, name |-> name, data |-> data, createdAt |-> createdAt]

\* JSON.stringify of a number: null for NaN and the infinities
JsonNumber(v) == IF v.k \in {"nan", "inf"} THEN JNull ELSE v

\* JSON.stringify of a scenario: the Date becomes a string
StoredScenario(s) == Scenario(JsonNumber(s.id), s.name, s.data, "string")

Stringified(items) == [i \in 1..Len(items) |-> StoredScenario(items[i])]

\* localStorage after setItem('risk_scenarios', JSON.stringify(items))
setItemScenarios(items) ==
  [kv EXCEPT !.scenarios = JsonText(JArray(Stringified(items)))]

\* an operation of the store ends: normally, or by throwing ("throws");
\* last.file is the text it found under 'risk_scenarios'
StoreOp(op, error) ==
  /\ events < MaxStoreOps
  /\ last' = [op |-> op, file |-> kv.scenarios, before |-> ui, error |-> error]
  /\ events' = events + 1
  /\ UNCHANGED profitVars
  /\ UNCHANGED gridVars
  /\ UNCHANGED formatVars
  /\ UNCHANGED hoverVars
  /\ UNCHANGED textVars
  /\ UNCHANGED saveVars

\* scenarioStorage.push(scenario)
Pushed(name, data) ==
  Append(scenarioStorage.items, Scenario(nextScenarioId, name, data, "Date"))

\* the counter is read and incremented before push, which throws when
\* scenarioStorage is not an array
addScenario(name, data) ==
  /\ nextScenarioId' = Add(nextScenarioId, Num(1))
  /\ assigned' = Append(assigned, nextScenarioId)
  /\ IF scenarioStorage.shape = "array"
     THEN /\ scenarioStorage' = JArray(Pushed(name, data))
          /\ kv' = setItemScenarios(Pushed(name, data))
          /\ StoreOp("add", "none")
     ELSE /\ UNCHANGED <<scenarioStorage, kv>>
          /\ StoreOp("add", "throws")

\* s.id === id for a number id
StrictEq(a, id) == IsFinite(a) /\ NumEq(a, id)

\* items.filter(s => s.id !== id)
RECURSIVE Without(_, _)
Without(items, id) ==
  IF items = <<>> THEN <<>>
  ELSE IF StrictEq(Head(items).id, id) THEN Without(Tail(items), id)
  ELSE <<Head(items)>> \o Without(Tail(items), id)

\* deleteScenario that leaves localStorage as it is
deleteScenario_NoSetItem(id) ==
  IF scenarioStorage.shape = "array"
  THEN /\ scenarioStorage' = JArray(Without(scenarioStorage.items, id))
       /\ UNCHANGED <<kv, nextScenarioId, assigned>>
       /\ StoreOp("delete", "none")
  ELSE /\ UNCHANGED <<kv, scenarioStorage, nextScenarioId, assigned>>
       /\ StoreOp("delete", "throws")

deleteScenario(id) ==
  IF scenarioStorage.shape = "array"
  THEN /\ scenarioStorage' = JArray(Without(scenarioStorage.items, id))
       /\ kv' = setItemScenarios(Without(scenarioStorage.items, id))
       /\ UNCHANGED <<nextScenarioId, assigned>>
       /\ StoreOp("delete", "none")
  ELSE /\ UNCHANGED <<kv, scenarioStorage, nextScenarioId, assigned>>
       /\ StoreOp("delete", "throws")

\* an argument of Math.max as a number: null is 0, undefined is NaN
ArgNumber(v) == IF v = JNull THEN Zero ELSE v

\* Math.max(...items.map(s => s.id), 0)
RECURSIVE MaxId(_)
MaxId(items) ==
  IF items = <<>> THEN Zero ELSE Max(ArgNumber(Head(items).id), MaxId(Tail(items)))

\* the load of listScenarios without the assignment to nextScenarioId
LoadScenarios_KeepCounter(v) ==
  /\ scenarioStorage' = v
  /\ UNCHANGED nextScenarioId
  /\ StoreOp("list", IF v.shape = "array" THEN "none" ELSE "throws")

\* the first call of listScenarios with text under 'risk_scenarios': the
\* parsed value is assigned before its ids are read, so a value that is not
\* an array stays in scenarioStorage and the final map throws
LoadScenarios(v) ==
  IF v.shape = "array"
  THEN /\ scenarioStorage' = v
       /\ nextScenarioId' = Add(MaxId(v.items), Num(1))
       /\ StoreOp("list", "none")
  ELSE /\ scenarioStorage' = v
       /\ UNCHANGED nextScenarioId
       /\ StoreOp("list", "throws")

listScenarios ==
  /\ UNCHANGED <<kv, assigned>>
  /\ IF scenarioStorage.shape # "array"
     THEN UNCHANGED <<scenarioStorage, nextScenarioId>> /\ StoreOp("list", "throws")
     ELSE IF scenarioStorage.items # <<>> \/ kv.scenarios.t # "json"
     THEN UNCHANGED <<scenarioStorage, nextScenarioId>> /\ StoreOp("list", "none")
     ELSE LoadScenarios(kv.scenarios.v)

\* scenarioStorage.find(...) || null
getScenario(id) ==
  /\ UNCHANGED <<kv, scenarioStorage, nextScenarioId, assigned>>
  /\ StoreOp("get", IF scenarioStorage.shape = "array" THEN "none" ELSE "throws")

ScenarioNames == {"A", "B"}
ScenarioData == {JObject(DefaultInputs)}
ScenarioIds == {Num(1), Num(2), Num(3)}

\* what an earlier session left under 'risk_scenarios'
StoredA == Scenario(Num(1), "A", JObject(DefaultInputs), "string")
StoredB == Scenario(Num(2), "B", JObject(DefaultInputs), "string")

ScenarioTexts ==
  { NoText, EmptyStringText, BadText, JsonText(JPrim(JNull)), JsonText(JArray(<<>>)),
    JsonText(JArray(<<StoredA>>)), JsonText(JArray(<<StoredB>>)),
    JsonText(JArray(<<StoredA, StoredB>>)) }

AddScenario == \E name \in ScenarioNames, data \in ScenarioData : addScenario(name, data)
DeleteScenario == \E id \in ScenarioIds : deleteScenario(id)
ListScenarios == listScenarios
GetScenario == \E id \in ScenarioIds : getScenario(id)

\* the module is loaded: an empty list, the counter at 1
InitStore ==
  /\ InitCalls({baseParams})
  /\ ui = DefaultInputs
  /\ row = 0
  /\ parts = <<>>
  /\ kv \in {[inputs |-> NoText, scenarios |-> t] : t \in ScenarioTexts}
  /\ scenarioStorage = JArray(<<>>)
  /\ nextScenarioId = Num(1)
  /\ last = NoEvent
  /\ events = 0
  /\ raw = RawNull
  /\ text = <<>>
  /\ assigned = <<>>
  /\ InitHover
  /\ InitText
  /\ InitSave

NextStore ==
  \/ AddScenario
  \/ DeleteScenario
  \/ ListScenarios
  \/ GetScenario

SpecStore == InitStore /\ [][NextStore]_vars

(***************************************************************************)
(* LineChart: mouse moves, animation frames and mouse leaves (SpecHover)   *)
(***************************************************************************)
MaxFrames == 6

\* the indices nearestIdx can give for a curve of four points
HoverIndices == 0..3

\* everything but the hover state stays as it is
HoverFrame ==
  /\ UNCHANGED profitVars
  /\ UNCHANGED gridVars
  /\ UNCHANGED <<kv, scenarioStorage, nextScenarioId, last, events, raw, text, assigned>>
  /\ UNCHANGED textVars
  /\ UNCHANGED saveVars

\* cancelAnimationFrame(id): the callback with that id, if still waiting, is dropped
Cancelled(id) == {f \in frames : f.id # id}

\* onMove without the cancelAnimationFrame of the frame requested before
onMove_NoCancel(idx) ==
  /\ rafCount < MaxFrames
  /\ frames' = frames \cup {[id |-> rafCount + 1, idx |-> idx]}
  /\ rafRef' = rafCount + 1
  /\ rafCount' = rafCount + 1
  /\ pointer' = "in"
  /\ UNCHANGED <<hIdx, lastIdxRef>>
  /\ HoverFrame

\* onMove for a mouse position whose nearest index is idx: the frame in
\* rafRef is cancelled and a new one requested; ids count up from 1
onMove(idx) ==
  /\ rafCount < MaxFrames
  /\ frames' = (IF rafRef # 0 THEN Cancelled(rafRef) ELSE frames)
                  \cup {[id |-> rafCount + 1, idx |-> idx]}
  /\ rafRef' = rafCount + 1
  /\ rafCount' = rafCount + 1
  /\ pointer' = "in"
  /\ UNCHANGED <<hIdx, lastIdxRef>>
  /\ HoverFrame

\* the browser runs the callback f of a requested frame
RunFrame(f) ==
  /\ frames' = frames \ {f}
  /\ IF f.idx # lastIdxRef
     THEN lastIdxRef' = f.idx /\ hIdx' = f.idx
     ELSE UNCHANGED <<lastIdxRef, hIdx>>
  /\ UNCHANGED <<rafRef, rafCount, pointer>>
  /\ HoverFrame

onLeave ==
  /\ pointer = "in"
  /\ frames' = (IF rafRef # 0 THEN Cancelled(rafRef) ELSE frames)
  /\ rafRef' = 0
  /\ lastIdxRef' = NullIdx
  /\ hIdx' = NullIdx
  /\ pointer' = "out"
  /\ UNCHANGED rafCount
  /\ HoverFrame

OnMove == \E idx \in HoverIndices : onMove(idx)
AnimationFrame == \E f \in frames : RunFrame(f)
OnLeave == onLeave

InitHoverOnly ==
  /\ InitCalls({baseParams})
  /\ ui = DefaultInputs
  /\ row = 0
  /\ parts = <<>>
  /\ kv = [inputs |-> NoText, scenarios |-> NoText]
  /\ scenarioStorage = JArray(<<>>)
  /\ nextScenarioId = Num(1)
  /\ last = NoEvent
  /\ events = 0
  /\ raw = RawNull
  /\ text = <<>>
  /\ assigned = <<>>
  /\ InitHover
  /\ InitText
  /\ InitSave

NextHover ==
  \/ OnMove
  \/ AnimationFrame
  \/ OnLeave

SpecHover == InitHoverOnly /\ [][NextHover]_vars

(***************************************************************************)
(* RiskSimApp: the two text inputs (SpecText).  The price per ton and the  *)
(* daily overhead are typed into text inputs whose text is state of its    *)
(* own; a blur parses the text into the input value.                       *)
(***************************************************************************)
MaxTextEvents == 3

\* a record whose daily overhead has a fraction
FractionRecord ==
  [NoFields EXCEPT !["precioPorTn"] = Num(70000), !["estadia"] = Rat(51, 2)]

TextFiles == Texts \cup {JsonText(JObject(FractionRecord))}

TypedTexts ==
  { <<"7", "0", "0", "0", "0">>, <<"1", ",", "5", "0", "0">>, <<"2", "5", ".", "5">>,
    <<"-", "5">>, <<"a", "b">>, <<>> }

MountLoad ==
  /\ LoadWithin(MaxTextEvents, loadSetting("inputs", JPrim(JNull)))
  /\ UNCHANGED saveVars

\* the import handler sets the eleven inputs and neither text
ImportFile ==
  /\ events > 0
  /\ \E file \in TextFiles :
       Event(MaxTextEvents, "import", file, ImportError(file), ImportedInputs(file))
  /\ UNCHANGED textVars
  /\ UNCHANGED saveVars

\* Guardar: addScenario with the current inputs as data; the refresh that
\* follows finds the in-memory list non-empty and loads nothing
Guardar ==
  /\ events > 0
  /\ addScenario("A", JObject(ui))

\* found.data || {}
FoundData(d) == IF Falsy(d) THEN JObject(NoFields) ELSE d

\* Cargar of a listed scenario: the eleven inputs are set and neither text
Cargar ==
  /\ events > 0
  /\ scenarioStorage.shape = "array"
  /\ \E i \in 1..Len(scenarioStorage.items) :
       Event(MaxTextEvents, "cargar", NoText, "none",
             Applied(FoundData(scenarioStorage.items[i].data), ui))
  /\ UNCHANGED textVars
  /\ UNCHANGED saveVars

\* Number.isFinite(v) && v >= 0
Accepted(v) == IsFinite(v) /\ NumLe(Zero, v)

onChangePrecioPorTn(typed) ==
  /\ Event(MaxTextEvents, "typePrecioPorTn", NoText, "none", ui)
  /\ precioPorTnInput' = typed
  /\ edited' = edited \cup {"precioPorTn"}
  /\ UNCHANGED estadiaInput
  /\ UNCHANGED saveVars

onChangeEstadia(typed) ==
  /\ Event(MaxTextEvents, "typeEstadia", NoText, "none", ui)
  /\ estadiaInput' = typed
  /\ edited' = edited \cup {"estadia"}
  /\ UNCHANGED precioPorTnInput
  /\ UNCHANGED saveVars

onBlurPrecioPorTn ==
  /\ IF Accepted(ParsedInput(precioPorTnInput))
     THEN /\ Event(MaxTextEvents, "blurPrecioPorTn", NoText, "none",
                   [ui EXCEPT !.precioPorTn = ParsedInput(precioPorTnInput)])
          /\ UNCHANGED precioPorTnInput
     ELSE /\ Event(MaxTextEvents, "blurPrecioPorTn", NoText, "none", ui)
          /\ precioPorTnInput' = NumberToString(ui.precioPorTn)
  /\ edited' = edited \ {"precioPorTn"}
  /\ UNCHANGED estadiaInput
  /\ UNCHANGED saveVars

onBlurEstadia ==
  /\ IF Accepted(ParsedInput(estadiaInput))
     THEN /\ Event(MaxTextEvents, "blurEstadia", NoText, "none",
                   [ui EXCEPT !.estadia = ParsedInput(estadiaInput)])
          /\ UNCHANGED estadiaInput
     ELSE /\ Event(MaxTextEvents, "blurEstadia", NoText, "none", ui)
          /\ estadiaInput' = NumberToString(ui.estadia)
  /\ edited' = edited \ {"estadia"}
  /\ UNCHANGED precioPorTnInput
  /\ UNCHANGED saveVars

TypePrecioPorTn == events > 0 /\ \E typed \in TypedTexts : onChangePrecioPorTn(typed)
TypeEstadia == events > 0 /\ \E typed \in TypedTexts : onChangeEstadia(typed)
BlurPrecioPorTn == events > 0 /\ onBlurPrecioPorTn
BlurEstadia == events > 0 /\ onBlurEstadia

NextText ==
  \/ MountLoad
  \/ ImportFile
  \/ Guardar
  \/ Cargar
  \/ TypePrecioPorTn
  \/ TypeEstadia
  \/ BlurPrecioPorTn
  \/ BlurEstadia

SpecText == InitMount /\ [][NextText]_vars

(***************************************************************************)
(* RiskSimApp: the mount-time load and the debounced save (SpecSave).      *)
(* The settings store is the localStorage one of this file or the Dexie    *)
(* one of db.ts.  With localStorage the load resumes in a microtask, ahead *)
(* of every timer and every input event; with Dexie it resumes when the    *)
(* database answers.                                                       *)
(***************************************************************************)
MaxChanges == 2

\* {"sanidad": 1e999}: JSON.parse gives Infinity
InfiniteRecord == [NoFields EXCEPT !["sanidad"] = PosInf]

\* what is found under "risk.inputs" at mount
StoredTexts ==
  { NoText, BadText, JsonText(JPrim(JNull)), JsonText(JObject(NoFields)),
    JsonText(JObject(FullRecord)) }

\* rows of the Dexie table: absent or a value
StoredRows == {NoText, JsonText(JObject(NoFields)), JsonText(JObject(FullRecord))}

ImportedFiles ==
  {BadText, JsonText(JObject(FullRecord)), JsonText(JObject(InfiniteRecord))}

\* db.ts: (row?.value) ?? fallback
loadSettingDexie(key, fallback) ==
  IF kv[key].t # "json" \/ kv[key].v = JPrim(JNull) THEN fallback ELSE kv[key].v

\* JSON.parse(JSON.stringify(s)) of the eleven inputs
JsonRecord(s) == [f \in UiFields |-> JsonNumber(s[f])]

\* saveSetting("risk.inputs", s): the text of s, or the row holding s
Written(s) ==
  IF settingsStore = "localStorage"
  THEN JsonText(JObject(JsonRecord(s)))
  ELSE JsonText(JObject(s))

\* the save effect runs: the cleanup of the run before clears its timer,
\* then setTimeout(..., 300) with the inputs of this render
Scheduled(s) ==
  [ timers |-> {t \in saveTimer.timers : t.id # saveTimer.current}
                 \cup {[id |-> saveTimer.made + 1, s |-> s]},
    made |-> saveTimer.made + 1,
    current |-> saveTimer.made + 1 ]

\* the effect runs after a render in which one of the eleven inputs changed
SaveEffect(newUi) == saveTimer' = IF newUi = ui THEN saveTimer ELSE Scheduled(newUi)

SaveFrame ==
  /\ UNCHANGED profitVars
  /\ UNCHANGED <<row, parts>>
  /\ UNCHANGED <<scenarioStorage, nextScenarioId>>
  /\ UNCHANGED formatVars
  /\ UNCHANGED assigned
  /\ UNCHANGED hoverVars
  /\ UNCHANGED settingsStore

\* microtasks run before timers and events
Resumed == settingsStore = "localStorage" => ~pendingLoad.on

\* the callback of a timer: saveSetting with the inputs of its render
TimerFires(t) ==
  /\ Resumed
  /\ kv' = [kv EXCEPT !.inputs = Written(t.s)]
  /\ saveTimer' = [saveTimer EXCEPT !.timers = @ \ {t}]
  /\ last' = [op |-> "save", file |-> kv.inputs, before |-> ui, error |-> "none"]
  /\ UNCHANGED <<ui, events, pendingLoad>>
  /\ UNCHANGED textVars
  /\ SaveFrame

\* the mount effect resumes after await loadSetting(...)
LoadResumes ==
  /\ pendingLoad.on
  /\ pendingLoad' = [pendingLoad EXCEPT !.on = FALSE]
  /\ ui' = LoadedInputs(pendingLoad.s)
  /\ LoadedTexts(pendingLoad.s, LoadedInputs(pendingLoad.s))
  /\ SaveEffect(LoadedInputs(pendingLoad.s))
  /\ last' = [op |-> "load", file |-> kv.inputs, before |-> ui, error |-> "none"]
  /\ UNCHANGED <<kv, events>>
  /\ SaveFrame

\* a handler sets inputs; the render that follows runs the save effect
ChangeInputs(op, file, error, newUi) ==
  /\ events < MaxChanges
  /\ Resumed
  /\ ui' = newUi
  /\ SaveEffect(newUi)
  /\ last' = [op |-> op, file |-> file, before |-> ui, error |-> error]
  /\ events' = events + 1
  /\ UNCHANGED <<kv, pendingLoad>>
  /\ UNCHANGED textVars
  /\ SaveFrame

TimerFire == \E t \in saveTimer.timers : TimerFires(t)

MoveSlider ==
  \E v \in SliderPrices :
    ChangeInputs("setPrecioVenta", NoText, "none", [ui EXCEPT !.precioVenta = v])

ImportInputs ==
  \E file \in ImportedFiles :
    ChangeInputs("import", file, ImportError(file), ImportedInputs(file))

\* the page is mounted and both effects have run: the load is waiting for
\* loadSetting and the first timer was set with the initial inputs
InitSaveMount ==
  /\ InitCalls({baseParams})
  /\ ui = DefaultInputs
  /\ row = 0
  /\ parts = <<>>
  /\ settingsStore \in {"localStorage", "dexie"}
  /\ kv \in {[inputs |-> t, scenarios |-> NoText] :
               t \in IF settingsStore = "localStorage" THEN StoredTexts ELSE StoredRows}
  /\ scenarioStorage = JArray(<<>>)
  /\ nextScenarioId = Num(1)
  /\ last = NoEvent
  /\ events = 0
  /\ raw = RawNull
  /\ text = <<>>
  /\ assigned = <<>>
  /\ InitHover
  /\ InitText
  /\ saveTimer = [timers |-> {[id |-> 1, s |-> DefaultInputs]}, made |-> 1, current |-> 1]
  /\ pendingLoad = [ on |-> TRUE,
                     s |-> IF settingsStore = "localStorage"
                           THEN loadSetting("inputs", JPrim(JNull))
                           ELSE loadSettingDexie("inputs", JPrim(JNull)) ]

NextSave ==
  \/ LoadResumes
  \/ TimerFire
  \/ MoveSlider
  \/ ImportInputs

SpecSave == InitSaveMount /\ [][NextSave]_vars

\* while the page stays open a timer that waits fires and a load that
\* waits resumes
SpecSaveFair == SpecSave /\ WF_vars(TimerFire) /\ WF_vars(LoadResumes)

(***************************************************************************)
(* Calls of formatNumber (SpecFormat)                                      *)
(***************************************************************************)
MaxLen == 4

Alphabet == {"0", "1", ".", ",", " ", "-", "x"}

\* the strings of the self-tests and every string of up to MaxLen characters
Strings ==
  {<<"1", "2", "3", "4", "5">>, <<"1", "2", "3", "4">>}
    \cup UNION {[1..k -> Alphabet] : k \in 0..MaxLen}

FormatNumbers ==
  { NaN, PosInf, NegInf, Zero, Rat(1234, 10000), Rat(-1234, 10000), Rat(1234, 100),
    Rat(99995, 100), Rat(-2001, 2), Num(12345), Num(1234567), Num(-2500000) }

RawValues ==
  {RawOf(t) : t \in {"null", "undefined", "object", "array", "symbol", "boolean"}}
    \cup {RawNumber(v) : v \in FormatNumbers}
    \cup {RawString(c) : c \in Strings}

InitFormat ==
  /\ InitCalls({baseParams})
  /\ ui = DefaultInputs
  /\ row = 0
  /\ parts = <<>>
  /\ kv = [inputs |-> NoText, scenarios |-> NoText]
  /\ scenarioStorage = JArray(<<>>)
  /\ nextScenarioId = Num(1)
  /\ last = NoEvent
  /\ events = 0
  /\ raw \in RawValues
  /\ text = <<>>
  /\ assigned = <<>>
  /\ InitHover
  /\ InitText
  /\ InitSave

\* text = formatNumber(raw)
Format ==
  /\ text = <<>>
  /\ text' = formatNumber(raw)
  /\ UNCHANGED <<raw, last, events, assigned>>
  /\ UNCHANGED hoverVars
  /\ UNCHANGED textVars
  /\ UNCHANGED saveVars
  /\ UNCHANGED profitVars
  /\ UNCHANGED gridVars
  /\ UNCHANGED storeVars

NextFormat == Format

SpecFormat == InitFormat /\ [][NextFormat]_vars

(***************************************************************************)
(* Properties of computeProfit (checked under SpecProfit)                  *)
(***************************************************************************)
AllFinite(r) == \A f \in ResultFields : IsFinite(r[f])

\* C1: every field of the result of computeProfit is a finite number, for
\* every input (finite, zero, negative or non-finite in each field), the
\* cases zero weight gain, zero daily gain and zero sale price included.
C1_EveryFieldFinite == phase # "input" => AllFinite(out)

GuardedToZero(given, used) == IF IsFinite(given) THEN used = given ELSE used = Zero

C5_InputGuards ==
  phase = "called"
  => LET g == Guarded(params)
     IN  /\ GuardedToZero(params.precio_compra, g._precio_compra)
         /\ GuardedToZero(params.precio_venta, g._precio_venta)
         /\ GuardedToZero(params.peso_compra, g._peso_compra)
         /\ GuardedToZero(params.precio_por_tn, g._precio_por_tn)
         /\ GuardedToZero(params.conversion, g._conversion)
         /\ GuardedToZero(params.estadia, g._estadia)
         /\ GuardedToZero(params.sanidad, g._sanidad)
         /\ IF IsFinite(params.peso_salida) /\ NumLt(EPS9, params.peso_salida)
            THEN g._peso_salida = params.peso_salida
            ELSE g._peso_salida = EPS9
         /\ IF IsFinite(params.adpv) /\ NumLt(Zero, params.adpv)
            THEN g._adpv = params.adpv
            ELSE g._adpv = EPS6
         /\ out.precio_neto_compra = g._precio_compra
         /\ out.precio_neto_venta = g._precio_venta
         /\ out.sanidad = g._sanidad
         /\ NumEq(out.dof, Div(Sub(g._peso_salida, g._peso_compra), g._adpv))

\* a call in which a zero-guard, the exit-weight guard and the daily-gain
\* guard all act
C5_Witness ==
  /\ phase = "called"
  /\ ~IsFinite(params.peso_compra)
  /\ IsFinite(params.peso_salida) /\ ~NumLt(EPS9, params.peso_salida)
  /\ IsFinite(params.adpv) /\ ~NumLt(Zero, params.adpv)
  /\ NumEq(out.dof, Rat(1, 1000))

OthersFinite ==
  \A f \in ParamFields \ {"adpv"} : IsFinite(params[f])

\* C6: with a daily gain that is non-positive or non-finite, the other
\* inputs finite and the exit weight different from the purchase weight,
\* dof, margen_neto and every field depending on dof are finite.
C6_DegenerateGainStaysFinite ==
  (/\ phase # "input"
   /\ ~(IsFinite(params.adpv) /\ NumLt(Zero, params.adpv))
   /\ OthersFinite
   /\ ~NumEq(params.peso_salida, params.peso_compra))
  => AllFinite(out)

\* C7: two calls that differ only in the sale price return the same
\* breakeven_venta.
C7_BreakevenVentaIgnoresSalePrice ==
  (phase = "again" /\ how = "precio_venta")
  => NumEq(out.breakeven_venta, out2.breakeven_venta)

\* the second call is the one of zeroLineX (sale price 0) and the margins differ
C7_Witness ==
  /\ phase = "again" /\ how = "precio_venta"
  /\ arg2.precio_venta = Zero
  /\ ~NumEq(out.margen_neto, out2.margen_neto)
  /\ NumEq(out.breakeven_venta, out2.breakeven_venta)

C8_CellsAreComputeProfitOfInputs ==
  row > 0
  => LET i == row - 1
     IN  /\ row = 1 => DOMAIN heatZ = DOMAIN compraGrid
         /\ DOMAIN heatZ[i] = DOMAIN ventaGrid
         /\ \A j \in DOMAIN ventaGrid :
              NumEq(heatZ[i][j],
                    computeProfit(
                      [ precio_compra |-> compraGrid[i], precio_venta |-> ventaGrid[j],
                        peso_compra |-> ui.pesoCompra, peso_salida |-> ui.pesoSalida,
                        precio_por_tn |-> ui.precioPorTn, conversion |-> ui.conversion,
                        adpv |-> ui.adpv, estadia |-> ui.estadia,
                        sanidad |-> ui.sanidad ])["margen_neto"])

\* C8 amended: the same, with the daily gain of the scenario raised to at
\* least 0.01 before the call.
C8_CellsAreComputeProfitOfClampedInputs ==
  row > 0
  => LET i == row - 1
     IN  /\ row = 1 => DOMAIN heatZ = DOMAIN compraGrid
         /\ DOMAIN heatZ[i] = DOMAIN ventaGrid
         /\ \A j \in DOMAIN ventaGrid :
              NumEq(heatZ[i][j],
                    computeProfit(
                      [ precio_compra |-> compraGrid[i], precio_venta |-> ventaGrid[j],
                        peso_compra |-> ui.pesoCompra, peso_salida |-> ui.pesoSalida,
                        precio_por_tn |-> ui.precioPorTn, conversion |-> ui.conversion,
                        adpv |-> IF NumLt(ui.adpv, Rat(1, 100)) THEN Rat(1, 100) ELSE ui.adpv,
                        estadia |-> ui.estadia,
                        sanidad |-> ui.sanidad ])["margen_neto"])

\* a row of a heatmap drawn while the daily gain is below 0.01
C8_Witness ==
  /\ row > 0
  /\ NumLt(ui.adpv, Rat(1, 100))
  /\ ~NumEq(heatZ[row - 1][0], heatZ[row - 1][1])

\* C9: in every row, the column whose sale price is nearest to the
\* breakeven price of the row has an absolute margin no larger than that of
\* any column lying further from that price.
C9_NearestColumnHasSmallestMargin ==
  row > 0
  => LET i == row - 1
         be == zeroLineX[i]
         near == NearestIdx(ventaGrid, be)
         dn == Abs(Sub(ventaGrid[near], be))
         mn == Abs(heatZ[i][near])
     IN  \A j \in DOMAIN ventaGrid :
           NumLt(dn, Abs(Sub(ventaGrid[j], be))) => NumLe(mn, Abs(heatZ[i][j]))

\* a row whose breakeven price lies strictly inside the axis, with margins
\* of both signs in the row
C9_Witness ==
  /\ row > 0
  /\ LET i == row - 1
         be == zeroLineX[i]
         near == NearestIdx(ventaGrid, be)
     IN  /\ 0 < near /\ near < ArrLen(ventaGrid) - 1
         /\ NumLt(heatZ[i][0], Zero)
         /\ NumLt(Zero, heatZ[i][ArrLen(ventaGrid) - 1])
         /\ NumLt(Abs(heatZ[i][near]), Abs(heatZ[i][near + 1]))

(***************************************************************************)
(* Further properties of computeProfit (under SpecProfit)                  *)
(***************************************************************************)
SumOfCosts(g, c) ==
  Add(Add(Add(c.costoCompra, c.costoFeedTotal), c.costoOverhead), g._sanidad)

AtLeastEachCost(g, c, ti) ==
  /\ NumLe(c.costoFeedTotal, ti)
  /\ NumLe(c.costoOverhead, ti)
  /\ NumLe(g._sanidad, ti)

\* C11 as claimed: for every input, total_inversion is the sum of the
\* purchase cost, the feed cost, the overhead cost and the health cost, and
\* is at least each of the feed cost, the overhead cost and the health cost.
C11_TotalInversionSumAndAtLeastEach ==
  phase = "called"
  => LET g == Guarded(params)
         c == Costs(g)
     IN  /\ NumEq(out.total_inversion, SumOfCosts(g, c))
         /\ AtLeastEachCost(g, c, out.total_inversion)

\* C11 amended: total_inversion is that sum for every input, and it is at
\* least each of the feed, overhead and health costs when none of the four
\* costs is negative.
C11_TotalInversionSumAndAtLeastEachNonNegative ==
  phase = "called"
  => LET g == Guarded(params)
         c == Costs(g)
     IN  /\ NumEq(out.total_inversion, SumOfCosts(g, c))
         /\ (/\ NumLe(Zero, c.costoCompra) /\ NumLe(Zero, c.costoFeedTotal)
             /\ NumLe(Zero, c.costoOverhead) /\ NumLe(Zero, g._sanidad))
            => AtLeastEachCost(g, c, out.total_inversion)

\* a call with a purchase cost of zero and the three other costs positive
C11_Witness ==
  /\ phase = "called"
  /\ LET g == Guarded(params)
         c == Costs(g)
     IN  /\ NumEq(c.costoCompra, Zero)
         /\ NumLt(Zero, c.costoFeedTotal) /\ NumLt(Zero, c.costoOverhead)
         /\ NumLt(Zero, g._sanidad)
         /\ NumLt(c.costoFeedTotal, out.total_inversion)

\* every field of the argument is a finite number
FiniteParams(p) == \A f \in ParamFields : IsFinite(p[f])

\* C14: days on feed (dof) is strictly positive whenever the exit weight
\* exceeds the purchase weight and the average daily gain is positive, all
\* inputs being finite, as in Scenario A.
C14_DaysOnFeedPositive ==
  ( /\ phase # "input"
    /\ FiniteParams(params)
    /\ NumLt(params.peso_compra, params.peso_salida)
    /\ NumLt(Zero, params.adpv) )
  => NumLt(Zero, out["dof"])

\* Scenario A: 100 kg of gain at 1.5 kg a day
C14_Witness ==
  /\ phase = "called"
  /\ params = baseParams
  /\ NumEq(out["dof"], Rat(200, 3))

(***************************************************************************)
(* Properties of RiskSimApp (under SpecApp)                                *)
(***************************************************************************)
\* the first n elements of the array a
Prefix(a, n) == [i \in 0..(n - 1) |-> a[i]]

\* i is the index of x nearest pv, the lowest one on ties
IsNearestLowest(x, pv, i) ==
  \A k \in DOMAIN x :
    IF k < i THEN NumLt(Abs(Sub(x[i], pv)), Abs(Sub(x[k], pv)))
    ELSE NumLe(Abs(Sub(x[i], pv)), Abs(Sub(x[k], pv)))

\* C12: the elasticity is the forward difference of the sensitivity curve at
\* the grid index nearest the sale price (the lowest on ties), to the next
\* index or to the same index at the last one, over max(1e-9, price step);
\* it is 0 at the last index and 0 for a grid of fewer than two points.
C12_ElasticityIsForwardDifference ==
  IsFinite(ui.precioVenta)
  => LET lst == ArrLen(sensX) - 1
         idx == CHOOSE i \in DOMAIN sensX : IsNearestLowest(sensX, ui.precioVenta, i)
         j == IF idx = lst THEN idx ELSE idx + 1
     IN  /\ NumEq(elasticity,
                  Div(Sub(sensY[j], sensY[idx]), Max(EPS9, Sub(sensX[j], sensX[idx]))))
         /\ idx = lst => NumEq(elasticity, Zero)
         /\ \A n \in 0..1 :
              NumEq(elasticityOf(Prefix(sensX, n), Prefix(sensY, n), ui.precioVenta), Zero)

\* a sale price half way between the first two grid points: index 0 is used
C12_Witness ==
  /\ NumEq(ui.precioVenta, Num(2025))
  /\ IsNearestLowest(sensX, ui.precioVenta, 0)
  /\ NumEq(Abs(Sub(sensX[1], ui.precioVenta)), Abs(Sub(sensX[0], ui.precioVenta)))
  /\ NumEq(elasticity, ui.pesoSalida)

(***************************************************************************)
(* Properties of the price axes (under SpecGrid)                           *)
(***************************************************************************)
\* g has 81 points from 2000 to 6000, each 50 above the one before it
EvenAxis(g) ==
  /\ DOMAIN g = 0..80
  /\ NumEq(g[0], Num(2000))
  /\ NumEq(g[80], Num(6000))
  /\ \A i \in 0..79 : NumLt(g[i], g[i + 1]) /\ NumEq(Sub(g[i + 1], g[i]), Num(50))

\* C13: both price axes are 81 evenly spaced, strictly ascending points
\* over [2000, 6000]: the first is the minimum, the last the maximum, and
\* consecutive points differ by (max - min)/(N - 1) = 50.
C13_AxesAreEvenlySpaced ==
  /\ row \in 0..ArrLen(compraGrid)
  /\ EvenAxis(ventaGrid)
  /\ EvenAxis(compraGrid)
  /\ NumEq(Div(Num(domainXMax - domainXMin), Num(ArrLen(ventaGrid) - 1)), Num(50))

\* every row of the heat map was visited; the last points are the maximum
C13_Witness ==
  /\ row = ArrLen(compraGrid)
  /\ NumEq(compraGrid[row - 1], Num(domainXMax))
  /\ NumEq(ventaGrid[ArrLen(ventaGrid) - 1], Num(domainXMax))

\* the last handler was an import of a file holding a JSON object
ImportedObject ==
  last.op = "import" /\ last.file.t = "json" /\ last.file.v.shape = "object"

\* C15: importing a scenario JSON does not fail and gives every field absent
\* from the imported record its documented default (3000, 3500, 200, 460,
\* 64000, 8, 1, 1.2, 30, 1200, 100 head).
C15_ImportAppliesDefaults ==
  ImportedObject
  => /\ last.error = "none"
     /\ \A f \in UiFields :
          Field(last.file.v, f) = Undefined => ui[f] = DefaultInputs[f]

\* the text under "risk.inputs" is missing, empty or not JSON
NothingUsable == kv.inputs.t \in {"none", "empty", "bad"}

\* C16: the load of "risk.inputs" at mount tolerates a missing, unparsable
\* or partial record: loadSetting returns the fallback when the key is
\* missing or its content malformed, a missing record leaves every input at
\* its default, and of a partial record each absent field takes its
\* documented default and each present field its stored value.
C16_LoadToleratesMissingAndPartial ==
  /\ NothingUsable => loadSetting("inputs", JPrim(Num(7))) = JPrim(Num(7))
  /\ last.op = "load"
     => /\ last.error = "none"
        /\ NothingUsable => ui = DefaultInputs
        /\ kv.inputs.t = "json"
           => \A f \in UiFields :
                IF Field(kv.inputs.v, f) \in {Undefined, JNull}
                THEN ui[f] = DefaultInputs[f]
                ELSE ui[f] = Field(kv.inputs.v, f)

\* a stored record with two fields was loaded: they are taken, the rest default
C16_Witness ==
  /\ last.op = "load"
  /\ kv.inputs = JsonText(JObject(PartialRecord))
  /\ ui.precioVenta = Num(7000)
  /\ ui.mortandad = Neg(Num(5))
  /\ ui.precioCompra = Num(3000)

\* the last handler was an import of a file that is not JSON or holds null
ImportedMalformed ==
  /\ last.op = "import"
  /\ \/ last.file.t \in {"empty", "bad"}
     \/ last.file = JsonText(JPrim(JNull))

\* C17: malformed import data is recovered locally: when the imported file
\* is not valid JSON, or parses to null, the handler ends in its catch block
\* (no error reaches the caller) and every input keeps the value it had
\* before the import.
C17_MalformedImportKeepsInputs ==
  ImportedMalformed => last.error = "alert" /\ ui = last.before

\* an unparsable file was imported over inputs that were not the defaults
C17_Witness ==
  /\ ImportedMalformed
  /\ last.file = BadText
  /\ ui # DefaultInputs
  /\ ui = last.before

\* 1 - m/100 brought into [0, 1]
ClampedSurvival(m) ==
  IF NumLt(Num(100), m) THEN Zero
  ELSE IF NumLt(m, Zero) THEN Num(1)
  ELSE Div(Sub(Num(100), m), Num(100))

MortalityValues == {Neg(Num(5)), Num(0), Num(1), Num(50), Num(100), Num(150)}

\* C18: the aggregate investment is the per-head total_inversion times the
\* head count whatever the mortality, and the aggregate net margin is the
\* per-head margen_neto times the head count times the survival rate
\* 1 - mortality/100 clamped to [0, 1], so it changes with the mortality.
C18_MortalityAffectsMarginNotInvestment ==
  /\ NumEq(totals.total_inversion, Mul(perHead["total_inversion"], ui.numCabezas))
  /\ NumEq(totals.margen_neto,
           Mul(Mul(perHead["margen_neto"], ui.numCabezas), ClampedSurvival(ui.mortandad)))
  /\ \A m \in MortalityValues :
       /\ NumEq(totalsOf(perHead, ui.numCabezas, m).total_inversion, totals.total_inversion)
       /\ ( /\ ~NumEq(ClampedSurvival(m), ClampedSurvival(ui.mortandad))
            /\ ~NumEq(Mul(perHead["margen_neto"], ui.numCabezas), Zero) )
          => ~NumEq(totalsOf(perHead, ui.numCabezas, m).margen_neto, totals.margen_neto)

\* half of the heads die: half of the margin, the whole investment
C18_Witness ==
  /\ last.op = "setMortandad"
  /\ ui.mortandad = Num(50)
  /\ ~NumEq(totals.margen_neto, Zero)
  /\ NumEq(Mul(Num(2), totals.margen_neto), Mul(perHead["margen_neto"], ui.numCabezas))
  /\ NumEq(totals.total_inversion, Mul(perHead["total_inversion"], ui.numCabezas))

(***************************************************************************)
(* Properties of formatNumber (under SpecFormat)                           *)
(***************************************************************************)
\* the number a string stands for once its spaces and commas are removed
ParsedValue(chars) == StringToNumber(SelectSeq(chars, NotSpaceOrComma))

\* r is a finite number or a string that parses to one
Formattable(r) ==
  \/ r.type = "number" /\ IsFinite(r.num)
  \/ r.type = "string" /\ IsFinite(ParsedValue(r.str))

\* C19: formatNumber returns the dash "-" for every argument that is
\* neither a finite number nor a string that parses to a finite number
\* after removing spaces and commas (null, undefined, NaN, Infinity,
\* objects, arrays, symbols), and for a numeric string the same text as for
\* the parsed number.
C19_DashUnlessNumeric ==
  text # <<>>
  => /\ ~Formattable(raw) => text = <<"-">>
     /\ (raw.type = "string" /\ Formattable(raw))
        => text = formatNumber(RawNumber(ParsedValue(raw.str)))

\* the self-test "formatNumber handles string number"
C19_Witness ==
  /\ raw = RawString(<<"1", "2", "3", "4">>)
  /\ text = <<"1", ",", "2", "3", "4">>
  /\ formatNumber(RawNumber(Rat(1234, 10000))) = <<"0", ".", "1", "2", "3">>
  /\ formatNumber(RawNumber(Rat(-1234, 10000))) = <<"-", "0", ".", "1", "2", "3">>
  /\ formatNumber(RawNumber(Rat(1234, 100))) = <<"1", "2", ".", "3">>

(***************************************************************************)
(* Properties of the scenario store (under SpecStore)                      *)
(***************************************************************************)
\* the list p read back from 'risk_scenarios' has the scenarios of m in order
SameScenarios(p, m) ==
  /\ Len(p) = Len(m)
  /\ \A i \in 1..Len(m) :
       p[i].id = m[i].id /\ p[i].name = m[i].name /\ p[i].data = m[i].data

\* C20: after every addScenario and every deleteScenario that completes,
\* the list persisted under 'risk_scenarios' contains exactly the scenarios
\* of the in-memory list, in the same order.
C20_StoreIsMirrored ==
  (last.op \in {"add", "delete"} /\ last.error = "none")
  => /\ kv.scenarios.t = "json"
     /\ kv.scenarios.v.shape = "array"
     /\ SameScenarios(kv.scenarios.v.items, scenarioStorage.items)

\* a scenario was deleted from a list of two: the other one is in both lists
C20_Witness ==
  /\ last.op = "delete"
  /\ last.error = "none"
  /\ events >= 3
  /\ Len(scenarioStorage.items) = 1
  /\ kv.scenarios.v.items = Stringified(scenarioStorage.items)

\* C21: each addScenario assigns an id strictly greater than every id
\* assigned before it, over any sequence of add, delete and list operations
\* (a reload of the list from the key-value store included), so that no id
\* is used again after its scenario was deleted.
C21_IdsStrictlyIncreasing ==
  \A i, j \in 1..Len(assigned) : i < j => NumLt(assigned[i], assigned[j])

(***************************************************************************)
(* Further properties of Heatmap (under SpecGrid)                          *)
(***************************************************************************)
\* the breakeven price be lies on the sale-price axis
OnAxis(be) ==
  /\ IsFinite(be)
  /\ NumLe(ventaGrid[0], be)
  /\ NumLe(be, ventaGrid[ArrLen(ventaGrid) - 1])

\* C22: every row whose breakeven sale price is finite and lies within the
\* range of the sale-price axis contributes a point to the breakeven line,
\* at the column nearest that breakeven price.
C22_EveryRowOnAxisHasPoint ==
  \A i \in 0..(row - 1) :
    OnAxis(zeroLineX[i])
    => \E k \in 1..Len(parts) :
         parts[k].row = i /\ parts[k].col = NearestIdx(ventaGrid, zeroLineX[i])

(***************************************************************************)
(* Properties of the LineChart hover (under SpecHover)                     *)
(***************************************************************************)
\* C23: at most one animation-frame callback is pending at any time, and
\* after a mouse leave none is pending and the hover index is null until
\* the next mouse move, however moves, frames and leaves interleave.
C23_OnePendingFrameNoneAfterLeave ==
  /\ Cardinality(frames) <= 1
  /\ pointer = "out" => frames = {} /\ hIdx = NullIdx

\* the mouse has left after at least two moves: nothing waits, nothing is shown
C23_Witness ==
  /\ pointer = "out"
  /\ rafCount >= 2
  /\ frames = {}
  /\ hIdx = NullIdx
  /\ rafRef = 0

(***************************************************************************)
(* C24: whenever scenarioStorage holds a list, the ids of its scenarios    *)
(* are pairwise distinct and nextScenarioId is greater than each of them,  *)
(* after every sequence of addScenario, deleteScenario, listScenarios and  *)
(* getScenario calls, whatever an earlier session left under               *)
(* 'risk_scenarios'.                                                       *)
(***************************************************************************)
C24_IdsDistinctBelowCounter ==
  scenarioStorage.shape = "array" =>
    /\ \A i, j \in 1..Len(scenarioStorage.items) :
          i < j => ~NumEq(scenarioStorage.items[i].id, scenarioStorage.items[j].id)
    /\ \A i \in 1..Len(scenarioStorage.items) :
          NumLt(scenarioStorage.items[i].id, nextScenarioId)

\* a list of two scenarios was loaded and a third one added to it
C24_Witness ==
  /\ last.op = "add"
  /\ last.error = "none"
  /\ scenarioStorage.shape = "array"
  /\ Len(scenarioStorage.items) = 3
  /\ NumEq(nextScenarioId, Num(4))

(***************************************************************************)
(* C25: addScenario discards no saved scenario: every scenario that was in *)
(* the list under 'risk_scenarios' before a call of addScenario is in the  *)
(* list under 'risk_scenarios' after it.                                   *)
(***************************************************************************)
SavedList(t) == IF t.t = "json" /\ t.v.shape = "array" THEN t.v.items ELSE <<>>

C25_AddKeepsSavedScenarios ==
  (last.op = "add" /\ last.error = "none") =>
    \A i \in 1..Len(SavedList(last.file)) :
      \E j \in 1..Len(SavedList(kv.scenarios)) :
        SavedList(kv.scenarios)[j] = SavedList(last.file)[i]

(***************************************************************************)
(* C26: the text of the price-per-ton input and the text of the daily-     *)
(* overhead input, unless typed into since the program last wrote or read  *)
(* it, parse to the current precioPorTn and estadia, so that a blur leaves *)
(* the value as it is; in particular after the startup load, a JSON import *)
(* and the load of a saved scenario.                                       *)
(***************************************************************************)
InSync(chars, v) == NumEq(ParsedInput(chars), v)

C26_TextsParseToInputs ==
  /\ "precioPorTn" \notin edited => InSync(precioPorTnInput, ui.precioPorTn)
  /\ "estadia" \notin edited => InSync(estadiaInput, ui.estadia)

(***************************************************************************)
(* C27: no save fires between mount and the moment the mount-time load of  *)
(* a stored 'risk.inputs' record has been applied, so the auto-save never  *)
(* overwrites a stored record with the initial inputs.                     *)
(***************************************************************************)
C27_NoSaveBeforeLoadApplied ==
  ~(last.op = "save" /\ pendingLoad.on /\ ~Falsy(pendingLoad.s))

(***************************************************************************)
(* C28: at most one save is pending, and every record written to           *)
(* 'risk.inputs' equals the inputs current at the time of writing.         *)
(***************************************************************************)
C28_OnePendingAndWrittenIsCurrent ==
  /\ Cardinality(saveTimer.timers) <= 1
  /\ last.op = "save" => kv.inputs = JsonText(JObject(ui))

\* what does hold: at most one save is pending, every record written is
\* what saveSetting makes of the current inputs, and under SpecSaveFair the
\* stored record ends up being that of the current inputs
WrittenIsSavedCurrent ==
  /\ Cardinality(saveTimer.timers) <= 1
  /\ last.op = "save" => kv.inputs = Written(ui)

SavedEventually == <>[](kv.inputs = Written(ui))

(***************************************************************************)
(* C29: for every input, margen_neto is positive, zero or negative exactly *)
(* when the guarded sale price is above, equal to or below the returned    *)
(* breakeven_venta, and margen_neto equals the guarded exit weight times   *)
(* (guarded sale price - breakeven_venta).                                 *)
(***************************************************************************)
SignAgrees(margin, price, breakeven) ==
  /\ NumLt(Zero, margin) <=> NumLt(breakeven, price)
  /\ NumEq(margin, Zero) <=> NumEq(price, breakeven)
  /\ NumLt(margin, Zero) <=> NumLt(price, breakeven)

====
